---------------------------- MODULE Spec2Model ----------------------------
(***************************************************************************)
(* Maritime AI voice front-end: the session orchestrator                   *)
(* (hooks/useMaritimeSession), the duplex client (services/client,         *)
(* MaritimeLiveClient) and the asset production queue                      *)
(* (hooks/useAssetManager), as state machines.                             *)
(*                                                                         *)
(* Strings are modelled as sequences of words; toLowerCase and includes    *)
(* work on those words.  Every await of an external promise is a           *)
(* suspension point: the code before it and the code after it are          *)
(* separate steps, and anything else may run in between.                   *)
(***************************************************************************)
EXTENDS Integers, Sequences, FiniteSets, TLC

(***************************************************************************)
(* Bounds of the model.                                                    *)
(***************************************************************************)
MaxJobs == 3

(***************************************************************************)
(* State.                                                                  *)
(***************************************************************************)
VARIABLES
  \* ---- the clock and the platform ----
  now,             \* Date.now() and the audio clock, in ms
  timers,          \* pending window.setTimeout callbacks
  timerSeq,        \* last timer handle handed out
  sources,         \* AudioBufferSourceNodes whose onended has not fired yet
  sourceSeq,       \* last source created
  apiKey,          \* whether VITE_API_KEY is set (checkApiKey)
  \* ---- useMaritimeSession ----
  orch,            \* its React state, refs and localStorage flag
  attempts,        \* number of startSession invocations so far
  calls,           \* per attempt: where its startSession invocation stands
  turnCalls,       \* invocations of the injected onTurnComplete callback
  config,          \* the documents and knowledge-mode flag the App holds
  spent,           \* how much of the MaxEvents budget is used up
  \* ---- MaritimeLiveClient, one per attempt ----
  clients,
  \* ---- useAssetManager ----
  assets,          \* GeneratedAsset[]
  activeAssetId,   \* id of the displayed asset, 0 for null
  proposedAsset,   \* ProposedAsset | null (NoJob)
  assetQueue,      \* ProposedAsset[]
  isProcessing,    \* the processing flag
  running,         \* processQueue invocations suspended at an await
  jobCount,        \* number of jobs the analysis collaborator has produced
  enqLog,          \* history: descriptions in the order they were enqueued
  dispLog,         \* history: descriptions in the order they were dispatched
  doneLog,         \* history: <<description, outcome>> of each finished call
  \* ---- retryWithBackoff ----
  rt,              \* one retryWithBackoff(operation, retries, delay) call
  \* ---- history of the playback scheduler ----
  schedLog,        \* the blocks scheduled and the stopAllAudio() calls, in order
  \* ---- audioUtils ----
  dsp,             \* one call of the resampler or of the PCM codec
  \* ---- the orchestrator of the split (relay) architecture ----
  relay            \* its processing stage, attempt, timers and requests

assetVars == <<assets, activeAssetId, proposedAsset, assetQueue, isProcessing,
               running, jobCount, enqLog, dispLog, doneLog>>

sessionVars == <<now, timers, timerSeq, sources, sourceSeq, attempts, calls,
                 turnCalls, config, spent, clients>>

\* the environment and what only some of the specifications move
envVars == <<apiKey, rt, schedLog, dsp, relay>>

vars == <<orch, envVars, sessionVars, assetVars>>

\* the chronological log (ChatMessage[]) both hooks write to
messages == orch.messages

(***************************************************************************)
(* Strings as word sequences.                                              *)
(***************************************************************************)
\* String.prototype.toLowerCase on one word
LowerWord(w) ==
  CASE w = "API" -> "api"
    [] w = "Key" -> "key"
    [] w = "Billing" -> "billing"
    [] w = "Quota" -> "quota"
    [] w = "Exceeded" -> "exceeded"
    [] w = "Data" -> "data"
    [] w = "Payload" -> "payload"
    [] w = "Too" -> "too"
    [] w = "Large" -> "large"
    [] w = "Microphone" -> "microphone"
    [] w = "Connection" -> "connection"
    [] w = "Failed" -> "failed"
    [] w = "Model" -> "model"
    [] w = "Video" -> "video"
    [] w = "URI" -> "uri"
    [] w = "Generation" -> "generation"
    [] w = "Generated" -> "generated"
    [] w = "Server" -> "server"
    [] OTHER -> w

ToLowerCase(s) == [i \in 1..Len(s) |-> LowerWord(s[i])]

\* String.prototype.includes: pat occurs as a run of consecutive words of s
Includes(s, pat) ==
  \E i \in 0..(Len(s) - Len(pat)) :
    \A j \in 1..Len(pat) : s[i + j] = pat[j]

\* new Error(message) with an optional HTTP status (0: none)
Err(message, status) == [message |-> message, status |-> status]

\* thrown where checkApiKey() fails
MissingKeyError == Err(<<"API", "Key", "missing">>, 0)

MaxErrWords == 6

\* msg.substring(0, 60): the message cut to a fixed length
Truncate(s) == SubSeq(s, 1, IF Len(s) < MaxErrWords THEN Len(s) ELSE MaxErrWords)

getFriendlyErrorMessage(error) ==
  LET msg == ToLowerCase(error.message)
      status == error.status
  IN  IF status = 401 \/ Includes(msg, <<"api", "key">>)
        THEN <<"Authentication", "Failed:", "Invalid", "API", "Key.">>
      ELSE IF status = 403
        THEN <<"Access", "Denied:", "Permissions", "restricted.">>
      ELSE IF status = 429
        THEN <<"System", "Busy:", "Rate", "limit", "exceeded.">>
      ELSE IF status >= 500
        THEN <<"Neural", "Core", "Offline:", "Server", "temporary", "error.">>
      ELSE IF Includes(msg, <<"fetch">>) \/ Includes(msg, <<"network">>)
        THEN <<"Connection", "Lost:", "Check", "network", "settings.">>
      ELSE IF Includes(msg, <<"safety">>) \/ Includes(msg, <<"blocked">>)
              \/ Includes(msg, <<"finishreason">>)
        THEN <<"Safety", "Protocol:", "Content", "flagged", "and", "blocked.">>
      ELSE IF Includes(msg, <<"candidate">>) /\ Includes(msg, <<"empty">>)
        THEN <<"Model", "Error:", "Received", "empty", "response.">>
      ELSE IF Includes(msg, <<"parse">>)
        THEN <<"Data", "Error:", "Received", "malformed", "data.">>
      ELSE <<"System", "Error:">> \o Truncate(msg) \o <<"...">>

(***************************************************************************)
(* The message log.                                                        *)
(***************************************************************************)
\* one ChatMessage: id is the position at which it was pushed (entries are
\* never removed, so positions are as unique as crypto.randomUUID())
Msg(id, role, text, ref, content) ==
  [id |-> id, role |-> role, text |-> text, ref |-> ref, content |-> content]

\* addMessage(role, content), applied to a log
addMessage(log, role, text, ref, content) ==
  Append(log, Msg(Len(log) + 1, role, text, ref, content))

addSystemMessage(log, text, ref, content) ==
  addMessage(log, "system", text, ref, content)

(***************************************************************************)
(* Session orchestrator (useMaritimeSession): state and handlers.          *)
(*                                                                         *)
(* A handler of the code mutates the hook's refs and queues React state    *)
(* updates; here a handler is an operator from a world w (the orchestrator *)
(* record, the clients, the pending timers and the audio sources) to the   *)
(* world after it, so that the handlers one event fires can be chained.    *)
(***************************************************************************)
MaxAttempts == 2       \* startSession invocations
MaxEvents == 2         \* clock advances, server messages, injected failures
                       \* and restarts by the operator, taken together
TickMs == 11000        \* one clock advance, ms
AudioBlockMs == 4000   \* play time of one audio block, ms

\* the minimum session length that lets auto-reconnect proceed, ms
MinSessionMs == 10000

\* delay of the reconnect timer, ms
ReconnectDelayMs == 3000

\* lead added when the playback cursor has fallen behind the audio clock, ms
SafetyMarginMs == 10

\* startSession(documents, ragMode, ...): the two inputs the hook reads
Configs == {[docs |-> 0, ragMode |-> TRUE], [docs |-> 1, ragMode |-> FALSE]}

NoIds == [user |-> 0, model |-> 0]

\* the hook right after its first render
OrchInit(auto) ==
  [ connectionState |-> "DISCONNECTED",
    messages |-> <<>>,
    userIsSpeaking |-> FALSE,
    isSpeaking |-> FALSE,
    liveClientRef |-> 0,
    nextStartTime |-> 0,
    activeSessionId |-> 0,
    sessionStartTime |-> 0,
    activeMessageIds |-> NoIds,
    activeAudioSources |-> {},
    reconnectTimeoutRef |-> 0,
    autoconnect |-> auto,
    audioContext |-> FALSE ]

\* a MaritimeLiveClient right after construction; made is FALSE until the
\* attempt constructs it.  ws, opened, conn and mic are the transport, the
\* connect() promise and the getUserMedia request the client waits on;
\* pending holds its suspended disconnect() invocations; connectedAt is the
\* time it entered CONNECTED (history).  inputContext is "closed" between
\* the call of close() on it and the assignment of null that follows.
\* mic is "denied" when getUserMedia rejected while the client was Connecting
\* and "moot" when it rejected after the attempt had ended some other way.
\* History: returned says that a disconnect() of this client has returned,
\* late that a handler was invoked after that, lost how an established
\* connection was lost ("close", "error" or "no"), traffic that a data handler
\* (audio, transcript, turn, interruption, volume) was called or a captured
\* frame was handed to sendRealtimeInput, micErrors how many times onError was
\* called with the microphone's initialization error, again that connect()
\* was called on the client once more while it was Connecting or Connected,
\* heard the transcript fragments that have arrived for each side since the
\* last turn-complete or interruption, in arrival order, and turnBase the
\* length the log had then.
NewClient(made) ==
  [ made |-> made,
    state |-> "DISCONNECTED",
    session |-> FALSE,
    inputContext |-> "null",
    processor |-> FALSE,
    stream |-> "null",
    handlers |-> made,
    currentInputTranscript |-> <<>>,
    currentOutputTranscript |-> <<>>,
    ws |-> "none",
    opened |-> FALSE,
    conn |-> "idle",
    mic |-> "none",
    pending |-> {},
    connectedAt |-> 0,
    returned |-> FALSE,
    late |-> FALSE,
    lost |-> "no",
    traffic |-> FALSE,
    micErrors |-> 0,
    again |-> FALSE,
    heard |-> [user |-> <<>>, model |-> <<>>],
    turnBase |-> 0 ]

World == [o |-> orch, c |-> clients, calls |-> calls, timers |-> timers,
          timerSeq |-> timerSeq, sources |-> sources, sourceSeq |-> sourceSeq,
          turnCalls |-> turnCalls]

Commit(w) ==
  /\ orch' = w.o
  /\ clients' = w.c
  /\ calls' = w.calls
  /\ timers' = w.timers
  /\ timerSeq' = w.timerSeq
  /\ sources' = w.sources
  /\ sourceSeq' = w.sourceSeq
  /\ turnCalls' = w.turnCalls

Log(w, role, text, content) ==
  [w EXCEPT !.o.messages = addMessage(@, role, text, 0, content)]

\* a clearTimeout that cancels nothing
clearTimeoutForgets(w) == w

\* window.clearTimeout(reconnectTimeoutRef.current)
clearTimeout(w) ==
  [w EXCEPT !.timers = {t \in @ : t.id # w.o.reconnectTimeoutRef}]

\* window.setTimeout(..., 3000), kept in reconnectTimeoutRef
setTimeout(w, k) ==
  [w EXCEPT !.timers = @ \cup {[id |-> w.timerSeq + 1, attempt |-> k,
                                due |-> now + ReconnectDelayMs]},
            !.timerSeq = @ + 1,
            !.o.reconnectTimeoutRef = w.timerSeq + 1]

stopAllAudio(w) ==
  [w EXCEPT !.sources = {IF s.id \in w.o.activeAudioSources
                           THEN [s EXCEPT !.stopped = TRUE] ELSE s : s \in @},
            !.o.activeAudioSources = {},
            !.o.isSpeaking = FALSE,
            !.o.nextStartTime = IF w.o.audioContext THEN now ELSE @]

\* playAudioChunk(pcmData) for a block that plays for `duration` ms
playAudioBlock(w, duration) ==
  IF ~w.o.audioContext THEN w
  ELSE LET start == IF w.o.nextStartTime < now THEN now + SafetyMarginMs
                    ELSE w.o.nextStartTime
           id == w.sourceSeq + 1
       IN  [w EXCEPT !.sources = @ \cup {[id |-> id, end |-> start + duration,
                                          stopped |-> FALSE]},
                     !.sourceSeq = id,
                     !.o.nextStartTime = start + duration,
                     !.o.activeAudioSources = @ \cup {id},
                     !.o.isSpeaking = TRUE]

playAudioChunk(w) == playAudioBlock(w, AudioBlockMs)

\* the guard left out
StaleNever(w, k) == FALSE

\* the stale-attempt guard every handler starts with
Stale(w, k) == w.o.activeSessionId # k

\* sessionDuration > 10000
LongEnough(sessionDuration) == sessionDuration > MinSessionMs

\* the duration measured from the time the client entered CONNECTED
SessionDurationSinceConnected(w, k) == now - w.c[k].connectedAt

\* Date.now() - sessionStartTimeRef.current
SessionDuration(w, k) == now - w.o.sessionStartTime

onStateChange(w, k, state) ==
  IF Stale(w, k) THEN w
  ELSE
    LET w1 == [w EXCEPT !.o.connectionState = state]
        w2 == IF state = "CONNECTED"
                THEN Log([w1 EXCEPT !.o.autoconnect = TRUE], "system", "Online", <<>>)
                ELSE w1
    IN  IF state # "DISCONNECTED" THEN w2
        ELSE IF ~w2.o.autoconnect THEN w2
        ELSE IF LongEnough(SessionDuration(w2, k))
          THEN setTimeout(Log(w2, "system", "Reconnecting", <<>>), k)
          ELSE [Log(w2, "system", "Unstable", <<>>) EXCEPT !.o.autoconnect = FALSE]

\* msg.includes('Quota') || msg.includes('Billing')
IsFatal(msg) == Includes(msg, <<"Quota">>) \/ Includes(msg, <<"Billing">>)

onError(w, k, err) ==
  IF Stale(w, k) THEN w
  ELSE
    LET msg == getFriendlyErrorMessage(err)
        w1 == Log(w, "system", "Error", msg)
    IN  IF IsFatal(msg)
          THEN IF w1.o.reconnectTimeoutRef # 0
                 THEN clearTimeout([w1 EXCEPT !.o.autoconnect = FALSE])
                 ELSE [w1 EXCEPT !.o.autoconnect = FALSE]
          ELSE w1

onAudioData(w, k) == IF Stale(w, k) THEN w ELSE playAudioChunk(w)

\* onTranscript pushing a new entry whatever the open id
StreamPushes(w, role, text) ==
  LET id == Len(w.o.messages) + 1 IN
  [w EXCEPT !.o.messages = Append(@, Msg(id, role, "Transcript", 0, text)),
            !.o.activeMessageIds[role] = id]

\* one side of onTranscript: update the message being streamed, or start one
Stream(w, role, text) ==
  LET activeId == w.o.activeMessageIds[role] IN
  IF activeId # 0
    THEN [w EXCEPT !.o.messages[activeId].content = text]
    ELSE LET id == Len(w.o.messages) + 1 IN
         [w EXCEPT !.o.messages = Append(@, Msg(id, role, "Transcript", 0, text)),
                   !.o.activeMessageIds[role] = id]

onTranscript(w, k, user, model) ==
  IF Stale(w, k) THEN w
  ELSE LET w1 == IF user # <<>> THEN Stream(w, "user", user) ELSE w
       IN  IF model # <<>> THEN Stream(w1, "model", model) ELSE w1

\* the handler leaving the open message ids as they are
onTurnCompleteKeepsIds(w, k) ==
  IF Stale(w, k) THEN w
  ELSE [w EXCEPT !.turnCalls = @ + 1]

onTurnComplete(w, k) ==
  IF Stale(w, k) THEN w
  ELSE [w EXCEPT !.o.activeMessageIds = NoIds, !.turnCalls = @ + 1]

onInterrupted(w, k) ==
  IF Stale(w, k) THEN w
  ELSE [stopAllAudio(w) EXCEPT !.o.activeMessageIds = NoIds]

\* vol is the block's RMS against the 0.01 threshold: "loud" or "quiet"
onVolumeChange(w, k, vol) ==
  IF Stale(w, k) THEN w
  ELSE [w EXCEPT !.o.userIsSpeaking = (vol = "loud")]

(***************************************************************************)
(* Duplex client (MaritimeLiveClient): methods as world operators.         *)
(***************************************************************************)
\* the error startAudioInput() failing is reported with
MicrophoneError == Err(<<"Microphone", "initialization", "failed.">>, 0)

\* a handler of this.eventHandlers is about to be called
Invoke(w, k) == [w EXCEPT !.c[k].late = @ \/ w.c[k].returned]

setState(w, k, state) ==
  LET w1 == [w EXCEPT !.c[k].state = state,
                      !.c[k].connectedAt = IF state = "CONNECTED" THEN now ELSE @]
  IN  IF w.c[k].handlers THEN onStateChange(Invoke(w1, k), k, state) ELSE w1

\* this.eventHandlers?.onError?.(err)
raiseError(w, k, err) ==
  IF w.c[k].handlers
    THEN onError(Invoke([w EXCEPT !.c[k].micErrors =
                             IF err = MicrophoneError THEN @ + 1 ELSE @], k), k, err)
    ELSE w

\* cleanupLocalResources() up to its await: the processor and the source are
\* detached, the tracks stopped, and close() is called on the context
cleanupLocalResources(w, k) ==
  [w EXCEPT !.c[k].processor = FALSE,
            !.c[k].stream = "null",
            !.c[k].inputContext = IF @ = "null" THEN "null" ELSE "closed"]

\* session.close() on the transport; it returns at once, the close event
\* follows later
CloseTransport(ws) == IF ws \in {"connecting", "open"} THEN "closing" ELSE ws

\* a disconnect() suspended at its await of cleanupLocalResources()
Suspended(caller, tag) == [caller |-> caller, tag |-> tag]

\* disconnect() after its await of cleanupLocalResources()
disconnectTail(w, k) ==
  IF w.c[k].session
    THEN [w EXCEPT !.c[k].ws = CloseTransport(@), !.c[k].session = FALSE,
                   !.c[k].state = "DISCONNECTED", !.c[k].returned = TRUE]
    ELSE [w EXCEPT !.c[k].state = "DISCONNECTED", !.c[k].returned = TRUE]

\* disconnect(), called by caller ("start", "stop" or "none"), up to the
\* await that suspends it, if one does
disconnect(w, k, caller, tag) ==
  IF w.c[k].state = "DISCONNECTED" THEN [w EXCEPT !.c[k].returned = TRUE]
  ELSE LET w1 == setState(w, k, "DISCONNECTING")
           w2 == cleanupLocalResources([w1 EXCEPT !.c[k].handlers = FALSE], k)
       IN  IF w2.c[k].inputContext # "null"
             THEN [w2 EXCEPT !.c[k].pending = @ \cup {Suspended(caller, tag)}]
             ELSE disconnectTail(w2, k)

DisconnectPending(w, k, caller, tag) ==
  \E d \in w.c[k].pending : d.caller = caller /\ d.tag = tag

\* the guard looking at the handlers only
DropsWithoutHandlers(c) == ~c.handlers

\* this.state !== ConnectionState.CONNECTED || !this.eventHandlers
Drops(c) == c.state # "CONNECTED" \/ ~c.handlers

\* a data handler of this.eventHandlers is about to be called
Deliver(w, k) == [Invoke(w, k) EXCEPT !.c[k].traffic = TRUE]

\* a turn of the client ends here (history)
TurnEnds(w, k) ==
  [w EXCEPT !.c[k].heard = [user |-> <<>>, model |-> <<>>],
            !.c[k].turnBase = Len(w.o.messages)]

\* handleMessage(message); m says which parts the server message carries and
\* the text of its transcript fragments
handleMessage(w, k, m) ==
  IF Drops(w.c[k]) THEN w
  ELSE
    LET w0 == Deliver(w, k)
        w1 == IF m.interrupted
                THEN TurnEnds([onInterrupted(w0, k)
                                 EXCEPT !.c[k].currentInputTranscript = <<>>,
                                        !.c[k].currentOutputTranscript = <<>>], k)
                ELSE w0
        w2 == IF m.audio THEN onAudioData(w1, k) ELSE w1
        w3 == IF m.outputTranscription
                THEN LET t == Append(w2.c[k].currentOutputTranscript, m.outputText) IN
                     onTranscript([w2 EXCEPT !.c[k].currentOutputTranscript = t,
                                             !.c[k].heard.model = Append(@, m.outputText)],
                                  k, w2.c[k].currentInputTranscript, t)
                ELSE w2
        w4 == IF m.inputTranscription
                THEN LET t == Append(w3.c[k].currentInputTranscript, m.inputText) IN
                     onTranscript([w3 EXCEPT !.c[k].currentInputTranscript = t,
                                             !.c[k].heard.user = Append(@, m.inputText)],
                                  k, t, w3.c[k].currentOutputTranscript)
                ELSE w3
    IN  IF m.turnComplete
          THEN TurnEnds([onTurnComplete(w4, k)
                           EXCEPT !.c[k].currentInputTranscript = <<>>,
                                  !.c[k].currentOutputTranscript = <<>>], k)
          ELSE w4

(***************************************************************************)
(* startSession and stopSession, cut at their awaits.                      *)
(***************************************************************************)
\* startSession from stopAllAudio() to the await of ensureAudioContext()
StartAfterDisconnect(w, a) ==
  LET w1 == stopAllAudio(w)
  IN  IF w.calls[a].ok
        THEN [w1 EXCEPT !.o.audioContext = TRUE, !.calls[a].pc = "awaitAudio"]
        ELSE [w1 EXCEPT !.calls[a].pc = "awaitAudioFail"]

\* startSession(documents, ragMode, onTurnComplete) up to its first await
\* that suspends; ok says whether the output AudioContext can be had
startSession(w, a, cfg, ok) ==
  LET w1 == [w EXCEPT !.o.activeSessionId = a,
                      !.o.sessionStartTime = now,
                      !.calls[a] = [pc |-> "start", cfg |-> cfg, ok |-> ok,
                                    by |-> "operator"]]
      w2 == IF cfg.ragMode /\ cfg.docs = 0
              THEN Log(w1, "system", "KnowledgeBaseEmpty", <<>>) ELSE w1
      w3 == IF w2.o.reconnectTimeoutRef # 0
              THEN [clearTimeout(w2) EXCEPT !.o.reconnectTimeoutRef = 0] ELSE w2
  IN  IF w3.o.liveClientRef # 0
        THEN LET oldClient == w3.o.liveClientRef
                 w4 == disconnect([w3 EXCEPT !.o.liveClientRef = 0], oldClient, "start", a)
             IN  IF DisconnectPending(w4, oldClient, "start", a)
                   THEN [w4 EXCEPT !.calls[a].pc = "awaitDisconnect"]
                   ELSE StartAfterDisconnect(w4, a)
        ELSE StartAfterDisconnect(w3, a)

\* the catch around client.connect() in startSession
ConnectFailed(w, a, e) ==
  IF w.o.activeSessionId = a
    THEN [Log(w, "system", "Error", getFriendlyErrorMessage(e))
            EXCEPT !.o.connectionState = "DISCONNECTED", !.o.autoconnect = FALSE,
                   !.calls[a].pc = "done"]
    ELSE [w EXCEPT !.calls[a].pc = "done"]

\* the entry guard letting every call through
AlreadyConnectingNever(c) == FALSE

\* this.state === CONNECTING || this.state === CONNECTED
AlreadyConnecting(c) == c.state \in {"CONNECTING", "CONNECTED"}

\* connect() with the API key present, up to its await of ai.live.connect()
connect(w, k) ==
  IF AlreadyConnecting(w.c[k]) THEN w
  ELSE [setState(w, k, "CONNECTING")
          EXCEPT !.c[k].ws = "connecting", !.c[k].conn = "pending"]

\* startSession after ensureAudioContext() resolved, to the await of connect()
StartConnect(w, a) ==
  LET w1 == IF w.o.audioContext THEN [w EXCEPT !.o.nextStartTime = now] ELSE w
  IN  IF w1.o.activeSessionId # a THEN [w1 EXCEPT !.calls[a].pc = "done"]
      ELSE
        LET w2 == [w1 EXCEPT !.o.activeMessageIds = NoIds,
                             !.c[a] = [NewClient(TRUE)
                                         EXCEPT !.turnBase = Len(w1.o.messages)]]
        IN  IF ~apiKey THEN ConnectFailed(w2, a, MissingKeyError)
            ELSE [connect(w2, a) EXCEPT !.calls[a].pc = "awaitConnect"]

\* startSession after client.connect() resolved
StartRegister(w, a) ==
  IF w.o.activeSessionId # a
    THEN [disconnect(w, a, "none", 0) EXCEPT !.calls[a].pc = "done"]
    ELSE [w EXCEPT !.o.liveClientRef = a, !.calls[a].pc = "done"]

\* stopSession leaving the reconnect timer alone
StopHeadKeepsTimer(w) ==
  [w EXCEPT !.o.activeSessionId = 0, !.o.autoconnect = FALSE]

\* stopSession up to its await of client.disconnect()
StopHead(w) ==
  LET w1 == [w EXCEPT !.o.activeSessionId = 0, !.o.autoconnect = FALSE]
  IN  IF w1.o.reconnectTimeoutRef # 0
        THEN [clearTimeout(w1) EXCEPT !.o.reconnectTimeoutRef = 0] ELSE w1

\* stopSession after that await
StopTail(w) ==
  [stopAllAudio(w) EXCEPT !.o.activeMessageIds = NoIds,
                          !.o.connectionState = "DISCONNECTED"]

\* the caller of a disconnect() that has returned goes on
Resume(w, caller, tag) ==
  CASE caller = "stop" -> StopTail(w)
    [] caller = "start" -> StartAfterDisconnect(w, tag)
    [] OTHER -> w

(***************************************************************************)
(* Session steps: user commands, timers, and the events of the transport,  *)
(* the microphone and the audio output.                                    *)
(***************************************************************************)
Attempts == 1..MaxAttempts

\* by: who invoked startSession, the operator or the reconnect timer (history)
NoCall == [pc |-> "none", cfg |-> [docs |-> 0, ragMode |-> FALSE], ok |-> TRUE,
           by |-> "none"]

\* the parts one server message can carry
Part(i, a, o, n, t) ==
  [interrupted |-> i, audio |-> a, outputTranscription |-> o,
   inputTranscription |-> n, turnComplete |-> t,
   outputText |-> "o", inputText |-> "i"]

ServerMessages ==
  { Part(TRUE, FALSE, FALSE, FALSE, FALSE), Part(FALSE, TRUE, FALSE, FALSE, FALSE),
    Part(FALSE, FALSE, TRUE, FALSE, FALSE), Part(FALSE, FALSE, FALSE, TRUE, FALSE),
    Part(FALSE, FALSE, FALSE, FALSE, TRUE), Part(TRUE, TRUE, TRUE, TRUE, TRUE) }

\* close events of the transport: a normal close, a close whose reason names
\* the quota, and a close with code 1009
CloseEvents ==
  { [reason |-> <<>>, code |-> 1000],
    [reason |-> <<"Quota", "exhausted">>, code |-> 1011],
    [reason |-> <<>>, code |-> 1009] }

TransportError == Err(<<"Connection", "disrupted">>, 0)

QuotaError(reason) == Err(<<"Billing", "Quota", "Exceeded:">> \o reason, 0)

PayloadError ==
  Err(<<"Data", "Payload", "Too", "Large.", "Try", "reducing", "RAG", "documents.">>, 0)

OtherSessionVars == <<now, attempts, config>>

\* one more event of the budgeted kinds
Inject == spent < MaxEvents /\ spent' = spent + 1

NoInject == spent' = spent

Tick ==
  /\ Inject
  /\ now' = now + TickMs
  /\ UNCHANGED <<orch, envVars, timers, timerSeq, sources, sourceSeq, attempts,
                 calls, turnCalls, config, clients, assetVars>>

\* the operator presses connect (or the page auto-connects on load)
StartSession ==
  \E ok \in BOOLEAN :
    /\ attempts < MaxAttempts
    /\ ok \/ ~orch.audioContext
    /\ IF ok /\ attempts = 0 THEN NoInject ELSE Inject
    /\ attempts' = attempts + 1
    /\ Commit(startSession(World, attempts + 1, config, ok))
    /\ UNCHANGED <<now, config, envVars, assetVars>>

\* the timer's callback reading the App's documents and mode as they are now
TimerFireCurrentConfig(t) ==
  /\ t \in timers
  /\ now >= t.due
  /\ LET w == [World EXCEPT !.timers = @ \ {t}] IN
     IF orch.activeSessionId = t.attempt
       THEN \E ok \in BOOLEAN :
              /\ attempts < MaxAttempts
              /\ ok \/ ~orch.audioContext
              /\ IF ok THEN NoInject ELSE Inject
              /\ attempts' = attempts + 1
              /\ Commit([startSession(w, attempts + 1, config, ok)
                           EXCEPT !.calls[attempts + 1].by = "timer"])
       ELSE /\ attempts' = attempts
            /\ NoInject
            /\ Commit(w)
  /\ UNCHANGED <<now, config, envVars, assetVars>>

\* the reconnect timer fires
TimerFire(t) ==
  /\ t \in timers
  /\ now >= t.due
  /\ LET w == [World EXCEPT !.timers = @ \ {t}] IN
     IF orch.activeSessionId = t.attempt
       THEN \E ok \in BOOLEAN :
              /\ attempts < MaxAttempts
              /\ ok \/ ~orch.audioContext
              /\ IF ok THEN NoInject ELSE Inject
              /\ attempts' = attempts + 1
              /\ Commit([startSession(w, attempts + 1, calls[t.attempt].cfg, ok)
                           EXCEPT !.calls[attempts + 1].by = "timer"])
       ELSE /\ attempts' = attempts
            /\ NoInject
            /\ Commit(w)
  /\ UNCHANGED <<now, config, envVars, assetVars>>

\* the operator uploads a document to an empty knowledge base or deletes the
\* only one, between two attempts (the next attempt is the first to read it)
SetDocuments ==
  /\ attempts >= 1 /\ attempts < MaxAttempts
  /\ config' = [config EXCEPT !.docs = 1 - @]
  /\ UNCHANGED <<orch, now, timers, timerSeq, sources, sourceSeq, attempts,
                 calls, turnCalls, spent, clients, envVars, assetVars>>

\* the operator presses disconnect
StopSession ==
  /\ LET w1 == StopHead(World) IN
     IF w1.o.liveClientRef # 0
       THEN LET client == w1.o.liveClientRef
                w2 == disconnect([w1 EXCEPT !.o.liveClientRef = 0], client,
                                 "stop", attempts)
            IN  IF DisconnectPending(w2, client, "stop", attempts)
                  THEN Commit(w2)
                  ELSE Commit(StopTail(w2))
       ELSE Commit(StopTail(w1))
  /\ NoInject
  /\ UNCHANGED <<OtherSessionVars, envVars, assetVars>>

\* ensureAudioContext() resolves
AudioReady(a) ==
  /\ calls[a].pc = "awaitAudio"
  /\ Commit(StartConnect(World, a))
  /\ NoInject
  /\ UNCHANGED <<OtherSessionVars, envVars, assetVars>>

\* ensureAudioContext() throws
AudioFailed(a) ==
  /\ calls[a].pc = "awaitAudioFail"
  /\ Commit([Log(World, "system", "AudioSystemFailed", <<>>)
               EXCEPT !.calls[a].pc = "done"])
  /\ NoInject
  /\ UNCHANGED <<OtherSessionVars, envVars, assetVars>>

\* onopen declaring the session connected before the microphone is there
WsOpenConnects(k) ==
  /\ clients[k].ws = "connecting"
  /\ Commit(setState([World EXCEPT !.c[k].ws = "open", !.c[k].opened = TRUE,
                                   !.c[k].inputContext = "running",
                                   !.c[k].mic = "pending"], k, "CONNECTED"))
  /\ NoInject
  /\ UNCHANGED <<OtherSessionVars, envVars, assetVars>>

\* onopen: the transport has opened and audio capture is being set up
WsOpen(k) ==
  /\ clients[k].ws = "connecting"
  /\ Commit([World EXCEPT !.c[k].ws = "open", !.c[k].opened = TRUE,
                          !.c[k].inputContext = "running", !.c[k].mic = "pending"])
  /\ NoInject
  /\ UNCHANGED <<OtherSessionVars, envVars, assetVars>>

\* the microphone result taken up whatever the state has become meanwhile
MicGrantedAnyState(k) ==
  /\ clients[k].mic = "pending"
  /\ Commit(setState([World EXCEPT !.c[k].mic = "done", !.c[k].stream = "live",
                                   !.c[k].processor = TRUE], k, "CONNECTED"))
  /\ NoInject
  /\ UNCHANGED <<OtherSessionVars, envVars, assetVars>>

\* getUserMedia resolves, and startAudioInput() with it
MicGranted(k) ==
  /\ clients[k].mic = "pending"
  /\ LET w == [World EXCEPT !.c[k].mic = "done"] IN
     IF clients[k].state \in {"DISCONNECTING", "DISCONNECTED"}
       THEN Commit(cleanupLocalResources([w EXCEPT !.c[k].stream = "stopped"], k))
       ELSE LET w1 == [w EXCEPT !.c[k].stream = "live", !.c[k].processor = TRUE]
            IN  IF clients[k].state = "CONNECTING"
                  THEN Commit(setState(w1, k, "CONNECTED"))
                  ELSE Commit(cleanupLocalResources(w1, k))
  /\ NoInject
  /\ UNCHANGED <<OtherSessionVars, envVars, assetVars>>

\* getUserMedia rejects
MicDenied(k) ==
  /\ clients[k].mic = "pending"
  /\ LET w == [World EXCEPT !.c[k].mic = IF clients[k].state = "CONNECTING"
                                           THEN "denied" ELSE "moot"]
     IN  Commit(disconnect(raiseError(w, k, MicrophoneError), k, "none", 0))
  /\ Inject
  /\ UNCHANGED <<OtherSessionVars, envVars, assetVars>>

\* connect() keeping the session whatever the state has become meanwhile
ConnectResolveKeepsSession(k) ==
  /\ clients[k].conn = "pending"
  /\ clients[k].opened
  /\ Commit(StartRegister([World EXCEPT !.c[k].conn = "done",
                                         !.c[k].session = TRUE], k))
  /\ NoInject
  /\ UNCHANGED <<OtherSessionVars, envVars, assetVars>>

\* ai.live.connect() resolves: the rest of connect(), then of startSession
ConnectResolve(k) ==
  /\ clients[k].conn = "pending"
  /\ clients[k].opened
  /\ LET w == [World EXCEPT !.c[k].conn = "done"] IN
     IF clients[k].state \in {"DISCONNECTING", "DISCONNECTED"}
       THEN Commit(StartRegister([w EXCEPT !.c[k].ws = CloseTransport(@),
                                           !.c[k].session = FALSE], k))
       ELSE Commit(StartRegister([w EXCEPT !.c[k].session = TRUE], k))
  /\ NoInject
  /\ UNCHANGED <<OtherSessionVars, envVars, assetVars>>

\* ai.live.connect() rejects: the catch of connect(), then of startSession
ConnectReject(k, e) ==
  /\ clients[k].conn = "pending"
  /\ clients[k].ws = "connecting"
  /\ LET w == [World EXCEPT !.c[k].conn = "done", !.c[k].ws = "closed"]
     IN  Commit(ConnectFailed(raiseError(setState(w, k, "DISCONNECTED"), k, e), k, e))
  /\ Inject
  /\ UNCHANGED <<OtherSessionVars, envVars, assetVars>>

\* onmessage
WsMessage(k, m) ==
  /\ clients[k].ws = "open"
  /\ Commit(handleMessage(World, k, m))
  /\ Inject
  /\ UNCHANGED <<OtherSessionVars, envVars, assetVars>>

\* onclose
WsClose(k, e) ==
  /\ clients[k].ws \in {"connecting", "open", "closing"}
  /\ LET w == [World EXCEPT !.c[k].ws = "closed",
                            !.c[k].lost = IF clients[k].state = "CONNECTED"
                                            THEN "close" ELSE @]
         w1 == IF e.reason # <<>> /\ (\/ Includes(ToLowerCase(e.reason), <<"quota">>)
                                      \/ Includes(ToLowerCase(e.reason), <<"billing">>))
                 THEN raiseError(w, k, QuotaError(e.reason))
               ELSE IF e.code = 1009 THEN raiseError(w, k, PayloadError)
               ELSE w
         w2 == cleanupLocalResources(w1, k)
     IN  IF w2.c[k].state # "DISCONNECTED"
           THEN Commit(setState(w2, k, "DISCONNECTED"))
           ELSE Commit(w2)
  /\ IF e.code = 1000 THEN NoInject ELSE Inject
  /\ UNCHANGED <<OtherSessionVars, envVars, assetVars>>

\* onerror
WsError(k) ==
  /\ clients[k].ws \in {"connecting", "open"}
  /\ LET w == [World EXCEPT !.c[k].ws = "closing",
                            !.c[k].lost = IF clients[k].state = "CONNECTED"
                                            THEN "error" ELSE @]
     IN  Commit(disconnect(raiseError(w, k, TransportError), k, "none", 0))
  /\ Inject
  /\ UNCHANGED <<OtherSessionVars, envVars, assetVars>>

\* onaudioprocess: one captured block; send says whether sendRealtimeInput
\* threw something other than a closing transport
Capture(k, vol, send) ==
  /\ clients[k].processor
  /\ LET c == clients[k] IN
     IF c.state # "CONNECTED" \/ ~c.session \/ ~c.handlers
       THEN Commit(World)
       ELSE LET w == onVolumeChange(Deliver(World, k), k, vol)
            IN  IF send = "fail" THEN Commit(disconnect(w, k, "none", 0))
                ELSE Commit(w)
  /\ IF send = "fail" THEN Inject ELSE NoInject
  /\ UNCHANGED <<OtherSessionVars, envVars, assetVars>>

\* inputContext.close() settles for a suspended disconnect(), which runs to
\* its end; then its caller goes on
DisconnectResume(k, d) ==
  /\ d \in clients[k].pending
  /\ Commit(Resume(disconnectTail([World EXCEPT !.c[k].pending = @ \ {d},
                                                !.c[k].inputContext = "null"], k),
                   d.caller, d.tag))
  /\ NoInject
  /\ UNCHANGED <<OtherSessionVars, envVars, assetVars>>

\* inputContext.close() settles for a cleanupLocalResources() nobody awaits
CleanupDone(k) ==
  /\ clients[k].inputContext = "closed"
  /\ clients[k].pending = {}
  /\ Commit([World EXCEPT !.c[k].inputContext = "null"])
  /\ NoInject
  /\ UNCHANGED <<OtherSessionVars, envVars, assetVars>>

\* onended clearing the flag without looking at the live-set
SourceEndedClearsFlag(s) ==
  /\ s \in sources
  /\ s.stopped \/ now >= s.end
  /\ Commit([World EXCEPT !.sources = @ \ {s},
                          !.o.activeAudioSources = @ \ {s.id},
                          !.o.isSpeaking = FALSE])
  /\ NoInject
  /\ UNCHANGED <<OtherSessionVars, envVars, assetVars>>

\* onended of an audio source: it has played to its end or was stopped
SourceEnded(s) ==
  /\ s \in sources
  /\ s.stopped \/ now >= s.end
  /\ LET left == orch.activeAudioSources \ {s.id} IN
     Commit([World EXCEPT !.sources = @ \ {s},
                          !.o.activeAudioSources = left,
                          !.o.isSpeaking = IF left = {} THEN FALSE ELSE @])
  /\ NoInject
  /\ UNCHANGED <<OtherSessionVars, envVars, assetVars>>

SessionInit(auto, cfg) ==
  /\ now = 0
  /\ config = cfg
  /\ timers = {}
  /\ timerSeq = 0
  /\ sources = {}
  /\ sourceSeq = 0
  /\ orch = OrchInit(auto)
  /\ attempts = 0
  /\ calls = [a \in Attempts |-> NoCall]
  /\ turnCalls = 0
  /\ spent = 0
  /\ clients = [k \in Attempts |-> NewClient(FALSE)]

(***************************************************************************)
(* Asset production queue (useAssetManager).                               *)
(***************************************************************************)
NoJob == [type |-> "none", description |-> 0, reason |-> "none"]

AssetTypes == {"image", "video", "chart", "diagram"}

Reasons == {"user_request", "system_suggestion"}

\* errors a remote call surfaces after retryWithBackoff has given up
RemoteErrors ==
  { Err(<<"Server", "error">>, 500) }

\* what a generate* function throws by itself, per kind
LocalError(type) ==
  CASE type = "image" ->
         Err(<<"Model", "generated", "no", "image", "data.">>, 0)
    [] type = "video" ->
         Err(<<"Video", "generation", "completed", "but", "returned", "no", "URI.">>, 0)
    [] type = "chart" -> Err(<<"JSON", "parse", "error">>, 0)
    [] type = "diagram" ->
         Err(<<"Model", "generated", "empty", "diagram", "code.">>, 0)
    [] OTHER -> Err(<<"Generation", "returned", "empty", "result">>, 0)

EmptyResultError == Err(<<"Generation", "returned", "empty", "result">>, 0)

\* the values a generate* call can resolve with: "url", "code" and "rows" are
\* truthy and printable, "noRows" is an empty array (truthy), "falsy" is a
\* JSON value such as null
Values(type) ==
  CASE type = "image" -> {"url"}
    [] type = "video" -> {"url"}
    [] type = "chart" -> {"rows", "noRows", "falsy"}
    [] type = "diagram" -> {"code"}
    [] OTHER -> {}

Truthy(v) == v # "falsy"

\* queueAsset(type, description, reason)
queueAsset(type, description, reason) ==
  /\ assetQueue' = Append(assetQueue,
                          [type |-> type, description |-> description, reason |-> reason])
  /\ enqLog' = Append(enqLog, description)

\* handleTurnComplete queueing every job it is told is needed
AnalysisResultQueuesAll ==
  /\ jobCount < MaxJobs
  /\ \E type \in AssetTypes \cup {"none"}, reason \in Reasons, needed \in BOOLEAN :
       IF needed /\ type # "none"
         THEN /\ jobCount' = jobCount + 1
              /\ queueAsset(type, jobCount + 1, reason)
              /\ UNCHANGED proposedAsset
         ELSE UNCHANGED <<jobCount, proposedAsset, assetQueue, enqLog>>
  /\ UNCHANGED <<orch, sessionVars, assets, activeAssetId, isProcessing, running, envVars,
                 dispLog, doneLog>>

\* App.handleTurnComplete, after analyzeInteraction has returned `result`
AnalysisResult ==
  /\ jobCount < MaxJobs
  /\ \E type \in AssetTypes \cup {"none"}, reason \in Reasons, needed \in BOOLEAN :
       IF needed /\ type # "none"
         THEN /\ jobCount' = jobCount + 1
              /\ IF reason = "user_request"
                   THEN /\ queueAsset(type, jobCount + 1, reason)
                        /\ UNCHANGED proposedAsset
                   ELSE /\ proposedAsset' = [type |-> type,
                                             description |-> jobCount + 1,
                                             reason |-> reason]
                        /\ UNCHANGED <<assetQueue, enqLog>>
         ELSE UNCHANGED <<jobCount, proposedAsset, assetQueue, enqLog>>
  /\ UNCHANGED <<orch, sessionVars, assets, activeAssetId, isProcessing, running, envVars,
                 dispLog, doneLog>>

approveProposedAsset ==
  /\ IF proposedAsset # NoJob
       THEN /\ assetQueue' = Append(assetQueue, proposedAsset)
            /\ enqLog' = Append(enqLog, proposedAsset.description)
            /\ proposedAsset' = NoJob
       ELSE UNCHANGED <<assetQueue, enqLog, proposedAsset>>
  /\ UNCHANGED <<orch, sessionVars, assets, activeAssetId, isProcessing, running, envVars,
                 jobCount, dispLog, doneLog>>

dismissProposedAsset ==
  /\ proposedAsset' = NoJob
  /\ UNCHANGED <<orch, sessionVars, assets, activeAssetId, assetQueue, isProcessing, running,
                 envVars, jobCount, enqLog, dispLog, doneLog>>

\* AssetDisplay onClose: setActiveAssetId(null)
CloseAsset ==
  /\ activeAssetId # 0
  /\ activeAssetId' = 0
  /\ UNCHANGED <<orch, sessionVars, assets, proposedAsset, assetQueue, isProcessing, running,
                 envVars, jobCount, enqLog, dispLog, doneLog>>

\* the guard of processQueue
CanProcessNoFlag == assetQueue # <<>>

CanProcess == ~isProcessing /\ assetQueue # <<>>

\* the job processQueue takes: assetQueue[0]
CurrentRequestLast == assetQueue[Len(assetQueue)]

CurrentRequest == Head(assetQueue)

\* prev.slice(1)
Dequeue == Tail(assetQueue)

\* processQueue, from the effect's start to its first await
ProcessQueue ==
  /\ CanProcess
  /\ LET currentRequest == CurrentRequest
         assetData == [id |-> Len(dispLog) + 1,
                       type |-> currentRequest.type,
                       description |-> currentRequest.description,
                       payload |-> "none"]
     IN  /\ isProcessing' = TRUE
         /\ assetQueue' = Dequeue
         /\ orch' = [orch EXCEPT !.messages =
                      addSystemMessage(messages, "Generating", 0,
                      <<currentRequest.type>>)]
         /\ running' = running \cup {[job |-> currentRequest, asset |-> assetData,
                                      pc |-> "call"]}
         /\ dispLog' = Append(dispLog, currentRequest.description)
  /\ UNCHANGED <<sessionVars, assets, activeAssetId, proposedAsset, envVars, jobCount, enqLog, doneLog>>

\* the log entries of the success branch
SuccessLog(log, asset) ==
  LET l1 == addSystemMessage(log, "Generated", asset.description, <<asset.type>>)
  IN  IF asset.type = "chart" /\ asset.payload = "rows"
        THEN addSystemMessage(l1, "ChartData", asset.description, <<>>)
      ELSE IF asset.type = "diagram" /\ asset.payload = "code"
        THEN addSystemMessage(l1, "DiagramSource", asset.description, <<>>)
      ELSE l1

\* the catch branch
OnFailureAppends(r, error) ==
  /\ assets' = Append(assets, r.asset)
  /\ activeAssetId' = r.asset.id
  /\ orch' = [orch EXCEPT !.messages =
               addSystemMessage(messages, "GenerationFailed", r.job.description,
               getFriendlyErrorMessage(error))]

OnFailure(r, error) ==
  /\ orch' = [orch EXCEPT !.messages =
               addSystemMessage(messages, "GenerationFailed", r.job.description,
               getFriendlyErrorMessage(error))]
  /\ UNCHANGED <<assets, activeAssetId>>

\* the try branch after the generation call has resolved with `value`
OnValue(r, value) ==
  LET assetData == [r.asset EXCEPT !.payload = value]
  IN  IF Truthy(value)
        THEN /\ assets' = Append(assets, assetData)
             /\ activeAssetId' = assetData.id
             /\ orch' = [orch EXCEPT !.messages =
                          SuccessLog(messages, assetData)]
        ELSE OnFailure(r, EmptyResultError)

\* the finally branch
FinallyKeepsFlag(r) ==
  /\ isProcessing' = isProcessing
  /\ running' = running \ {r}

Finally(r) ==
  /\ isProcessing' = FALSE
  /\ running' = running \ {r}

\* the generation call of an image, chart or diagram job resolves
GenResolve ==
  \E r \in running :
    /\ r.pc = "call" /\ r.job.type # "video" /\ apiKey
    /\ \E value \in Values(r.job.type) :
         /\ OnValue(r, value)
         /\ doneLog' = Append(doneLog,
                              <<r.job.description, IF Truthy(value) THEN "ok" ELSE "empty">>)
    /\ Finally(r)
    /\ UNCHANGED <<sessionVars, proposedAsset, assetQueue, envVars, jobCount, enqLog, dispLog>>

\* the generation call of any job rejects
GenReject ==
  \E r \in running :
    /\ r.pc \in {"call", "poll"}
    /\ \E error \in (IF apiKey THEN RemoteErrors \cup {LocalError(r.job.type)}
                               ELSE {MissingKeyError}) :
         OnFailure(r, error)
    /\ doneLog' = Append(doneLog, <<r.job.description, "throw">>)
    /\ Finally(r)
    /\ UNCHANGED <<sessionVars, proposedAsset, assetQueue, envVars, jobCount, enqLog, dispLog>>

\* generateVideo: the initial request or one status poll returns an operation
\* that is not done; the loop starts its 5 s sleep
VideoPending ==
  \E r \in running :
    /\ r.job.type = "video" /\ r.pc \in {"call", "poll"} /\ apiKey
    /\ running' = (running \ {r}) \cup {[r EXCEPT !.pc = "sleep"]}
    /\ UNCHANGED <<orch, sessionVars, assets, activeAssetId, proposedAsset, assetQueue,
                   isProcessing, envVars, jobCount, enqLog, dispLog, doneLog>>

\* generateVideo: the sleep is over and the next status poll is sent
VideoPoll ==
  \E r \in running :
    /\ r.job.type = "video" /\ r.pc = "sleep"
    /\ running' = (running \ {r}) \cup {[r EXCEPT !.pc = "poll"]}
    /\ UNCHANGED <<orch, sessionVars, assets, activeAssetId, proposedAsset, assetQueue,
                   isProcessing, envVars, jobCount, enqLog, dispLog, doneLog>>

\* generateVideo: the operation is done and carries a URI
VideoDone ==
  \E r \in running :
    /\ r.job.type = "video" /\ r.pc \in {"call", "poll"} /\ apiKey
    /\ OnValue(r, "url")
    /\ doneLog' = Append(doneLog, <<r.job.description, "ok">>)
    /\ Finally(r)
    /\ UNCHANGED <<sessionVars, proposedAsset, assetQueue, envVars, jobCount, enqLog, dispLog>>

AssetStart ==
  /\ assets = <<>>
  /\ activeAssetId = 0
  /\ proposedAsset = NoJob
  /\ assetQueue = <<>>
  /\ isProcessing = FALSE
  /\ running = {}
  /\ jobCount = 0
  /\ enqLog = <<>>
  /\ dispLog = <<>>
  /\ doneLog = <<>>

AssetInit ==
  /\ relay = [pc |-> "idle"]
  /\ apiKey \in BOOLEAN
  /\ rt = [pc |-> "idle"]
  /\ schedLog = <<>>
  /\ dsp = [pc |-> "idle"]
  /\ SessionInit(FALSE, [docs |-> 0, ragMode |-> FALSE])
  /\ AssetStart

AssetNext ==
  \/ AnalysisResult
  \/ approveProposedAsset
  \/ dismissProposedAsset
  \/ CloseAsset
  \/ ProcessQueue
  \/ GenResolve
  \/ GenReject
  \/ VideoPending
  \/ VideoPoll
  \/ VideoDone

AssetSpec == AssetInit /\ [][AssetNext]_vars

(***************************************************************************)
(* The session: orchestrator and clients.  The page loads with the         *)
(* auto-connect flag an earlier visit left set; the state with the flag    *)
(* cleared is the one a first stopSession leads to.                        *)
(***************************************************************************)
Init ==
  /\ relay = [pc |-> "idle"]
  /\ apiKey \in BOOLEAN
  /\ rt = [pc |-> "idle"]
  /\ schedLog = <<>>
  /\ dsp = [pc |-> "idle"]
  /\ \E cfg \in Configs : SessionInit(TRUE, cfg)
  /\ AssetStart

\* what ai.live.connect() can reject with
ConnectErrors == { Err(<<"Failed", "to", "fetch">>, 0) }

Next ==
  \/ Tick
  \/ StartSession
  \/ \E t \in timers : TimerFire(t)
  \/ StopSession
  \/ SetDocuments
  \/ \E a \in Attempts : AudioReady(a)
  \/ \E a \in Attempts : AudioFailed(a)
  \/ \E k \in Attempts : WsOpen(k)
  \/ \E k \in Attempts : MicGranted(k)
  \/ \E k \in Attempts : MicDenied(k)
  \/ \E k \in Attempts : ConnectResolve(k)
  \/ \E k \in Attempts, e \in ConnectErrors : ConnectReject(k, e)
  \/ \E k \in Attempts, m \in ServerMessages : WsMessage(k, m)
  \/ \E k \in Attempts, e \in CloseEvents : WsClose(k, e)
  \/ \E k \in Attempts : WsError(k)
  \/ \E k \in Attempts, vol \in {"loud", "quiet"}, send \in {"ok", "fail"} :
        Capture(k, vol, send)
  \/ \E k \in Attempts : \E d \in clients[k].pending : DisconnectResume(k, d)
  \/ \E k \in Attempts : CleanupDone(k)
  \/ \E s \in sources : SourceEnded(s)

Spec == Init /\ [][Next]_vars

(***************************************************************************)
(* The client under a caller that may call connect() on it once more while *)
(* its first connect() is under way or has succeeded.                      *)
(***************************************************************************)
ConnectAgain(k) ==
  /\ clients[k].made
  /\ clients[k].state \in {"CONNECTING", "CONNECTED"}
  /\ ~clients[k].again
  /\ Commit([connect(World, k) EXCEPT !.c[k].again = TRUE])
  /\ NoInject
  /\ UNCHANGED <<OtherSessionVars, envVars, assetVars>>

ClientNext ==
  \/ StartSession
  \/ \E a \in Attempts : AudioReady(a)
  \/ \E k \in Attempts : WsOpen(k)
  \/ \E k \in Attempts : MicGranted(k)
  \/ \E k \in Attempts : MicDenied(k)
  \/ \E k \in Attempts : ConnectResolve(k)
  \/ \E k \in Attempts, e \in ConnectErrors : ConnectReject(k, e)
  \/ \E k \in Attempts, m \in ServerMessages : WsMessage(k, m)
  \/ \E k \in Attempts, e \in CloseEvents : WsClose(k, e)
  \/ \E k \in Attempts : WsError(k)
  \/ \E k \in Attempts, vol \in {"loud", "quiet"}, send \in {"ok", "fail"} :
        Capture(k, vol, send)
  \/ \E k \in Attempts : \E d \in clients[k].pending : DisconnectResume(k, d)
  \/ \E k \in Attempts : CleanupDone(k)
  \/ \E s \in sources : SourceEnded(s)
  \/ \E k \in Attempts : ConnectAgain(k)

ClientSpec == Init /\ [][ClientNext]_vars

(***************************************************************************)
(* Turns of transcript fragments: the session is started (and may be       *)
(* started again), and the server sends up to MaxFragments messages that   *)
(* carry fragments of either side, end the turn or interrupt it.           *)
(***************************************************************************)
MaxFragments == 4

Fragment(side, text) ==
  [Part(FALSE, FALSE, side = "model", side = "user", FALSE)
     EXCEPT !.outputText = text, !.inputText = text]

TurnMessages ==
  {Fragment(side, text) : side \in {"user", "model"}, text \in {"a", "b"}}
    \cup { Part(TRUE, FALSE, FALSE, FALSE, FALSE),
           Part(FALSE, FALSE, FALSE, FALSE, TRUE),
           [Fragment("model", "a") EXCEPT !.interrupted = TRUE],
           [Fragment("model", "b") EXCEPT !.turnComplete = TRUE] }

\* onmessage with one of these messages
TurnMessage(k, m) ==
  /\ clients[k].ws = "open"
  /\ spent < MaxFragments
  /\ spent' = spent + 1
  /\ Commit(handleMessage(World, k, m))
  /\ UNCHANGED <<OtherSessionVars, envVars, assetVars>>

TranscriptNext ==
  \/ StartSession
  \/ \E a \in Attempts : AudioReady(a)
  \/ \E k \in Attempts : WsOpen(k)
  \/ \E k \in Attempts : MicGranted(k)
  \/ \E k \in Attempts : ConnectResolve(k)
  \/ \E k \in Attempts : \E d \in clients[k].pending : DisconnectResume(k, d)
  \/ \E k \in Attempts, m \in TurnMessages : TurnMessage(k, m)

TranscriptSpec == Init /\ [][TranscriptNext]_vars

(***************************************************************************)
(* The generation call of every dispatched job eventually returns, throws  *)
(* or, for a video job, takes one more turn of its poll loop; React runs   *)
(* the effect after every commit.                                          *)
(***************************************************************************)
Settle == GenResolve \/ GenReject \/ VideoPending \/ VideoPoll \/ VideoDone

AssetFairSpec ==
  /\ AssetInit /\ [][AssetNext]_vars
  /\ WF_vars(ProcessQueue)
  /\ WF_vars(Settle)

(***************************************************************************)
(* retryWithBackoff (services/utils): one call of it, cut at its awaits.   *)
(* rt.retries and rt.delay are the arguments of the innermost invocation,  *)
(* rt.invoked counts the calls of operation(), rt.waits lists the delays   *)
(* that have been started, rt.errors the statuses operation() rejected     *)
(* with (0: an error without a status), rt.thrown what the call rethrew.   *)
(***************************************************************************)
MaxRetries == 3        \* the largest retries argument tried

\* the arguments the call sites pass
CallerRetries == 3

CallerDelayMs == 1000

\* what operation() can reject with
Statuses == {0, 400, 404, 429, 499, 500}

DelaysMs == {CallerDelayMs, 2000}

RetryIdle ==
  [pc |-> "idle", retries0 |-> 0, delay0 |-> 0, retries |-> 0, delay |-> 0,
   invoked |-> 0, waits |-> <<>>, errors |-> <<>>, thrown |-> -1]

\* the budget test one retry too early
OutOfRetriesEarly(retries) == retries <= 1

\* if (retries <= 0) throw error
OutOfRetries(retries) == retries <= 0

\* the 4xx test with its lower end excluded
NonRetryableAbove400(status) ==
  status # 0 /\ status > 400 /\ status < 500 /\ status # 429

\* status && status >= 400 && status < 500 && status !== 429
NonRetryable(status) ==
  status # 0 /\ status >= 400 /\ status < 500 /\ status # 429

\* delay * 2
NextDelay(delay) == delay * 2

RetryOthers == <<orch, apiKey, schedLog, dsp, relay, sessionVars, assetVars>>

\* a call site calls retryWithBackoff(operation, retries, delay): the first
\* operation() is under way
retryWithBackoff(retries, delay) ==
  /\ rt.pc = "idle"
  /\ rt' = [RetryIdle EXCEPT !.pc = "call", !.retries0 = retries,
                             !.delay0 = delay, !.retries = retries,
                             !.delay = delay, !.invoked = 1]
  /\ UNCHANGED RetryOthers

\* operation() resolves: return await operation()
OperationResolves ==
  /\ rt.pc = "call"
  /\ rt' = [rt EXCEPT !.pc = "returned"]
  /\ UNCHANGED RetryOthers

\* operation() rejects: the catch block up to its throw or its await
OperationRejects(status) ==
  /\ rt.pc = "call"
  /\ LET rethrow == OutOfRetries(rt.retries) \/ NonRetryable(status) IN
     rt' = [rt EXCEPT !.errors = Append(@, status),
                      !.pc = IF rethrow THEN "thrown" ELSE "sleep",
                      !.waits = IF rethrow THEN @ ELSE Append(@, rt.delay),
                      !.thrown = IF rethrow THEN status ELSE @]
  /\ UNCHANGED RetryOthers

\* the delay is over: retryWithBackoff(operation, retries - 1, delay * 2)
BackoffOver ==
  /\ rt.pc = "sleep"
  /\ rt' = [rt EXCEPT !.pc = "call", !.retries = @ - 1,
                      !.delay = NextDelay(@), !.invoked = @ + 1]
  /\ UNCHANGED RetryOthers

RetryInit ==
  /\ relay = [pc |-> "idle"]
  /\ apiKey = TRUE
  /\ rt = RetryIdle
  /\ schedLog = <<>>
  /\ dsp = [pc |-> "idle"]
  /\ SessionInit(FALSE, [docs |-> 0, ragMode |-> FALSE])
  /\ AssetStart

RetryNext ==
  \/ \E retries \in 0..MaxRetries, delay \in DelaysMs : retryWithBackoff(retries, delay)
  \/ OperationResolves
  \/ \E status \in Statuses : OperationRejects(status)
  \/ BackoffOver

RetrySpec == RetryInit /\ [][RetryNext]_vars

(***************************************************************************)
(* The playback scheduler of useMaritimeSession by itself: blocks of       *)
(* several lengths arrive, stopAllAudio() is called and sources end, in    *)
(* any order, while the audio clock advances in small steps.  The hook     *)
(* holds its output context, and some time has passed since the cursor was *)
(* last set to the clock.  schedLog records each block scheduled (at: the  *)
(* clock when it was scheduled) and each stopAllAudio() call.              *)
(***************************************************************************)
MaxSchedLog == 4       \* blocks and stopAllAudio() calls, taken together
MaxClock == 45         \* the audio clock stops here, ms

ClockSteps == {5, 20}

BlockDurations == {10, 30}

AudioOthers == <<apiKey, rt, dsp, relay, attempts, config, spent, assetVars>>

AudioClock(d) ==
  /\ now + d <= MaxClock
  /\ now' = now + d
  /\ UNCHANGED <<orch, schedLog, timers, timerSeq, sources, sourceSeq, calls,
                 turnCalls, clients, AudioOthers>>

\* a block of the given length reaches playAudioChunk
PlayChunk(duration) ==
  /\ Len(schedLog) < MaxSchedLog
  /\ LET w == playAudioBlock(World, duration) IN
     /\ Commit(w)
     /\ schedLog' = Append(schedLog, [op |-> "play", at |-> now,
                                      start |-> w.o.nextStartTime - duration,
                                      duration |-> duration])
  /\ UNCHANGED <<now, AudioOthers>>

\* stopAllAudio() is called (interruption, stopSession or startSession)
StopAll ==
  /\ Len(schedLog) < MaxSchedLog
  /\ Commit(stopAllAudio(World))
  /\ schedLog' = Append(schedLog, [op |-> "stop", at |-> now,
                                   start |-> orch.nextStartTime, duration |-> 0])
  /\ UNCHANGED <<now, AudioOthers>>

AudioInit ==
  /\ relay = [pc |-> "idle"]
  /\ apiKey = TRUE
  /\ rt = [pc |-> "idle"]
  /\ schedLog = <<>>
  /\ dsp = [pc |-> "idle"]
  /\ now \in ClockSteps
  /\ config = [docs |-> 0, ragMode |-> FALSE]
  /\ timers = {} /\ timerSeq = 0 /\ sources = {} /\ sourceSeq = 0
  /\ orch = [OrchInit(TRUE) EXCEPT !.audioContext = TRUE]
  /\ attempts = 0 /\ turnCalls = 0 /\ spent = 0
  /\ calls = [a \in Attempts |-> NoCall]
  /\ clients = [k \in Attempts |-> NewClient(FALSE)]
  /\ AssetStart

AudioNext ==
  \/ \E d \in ClockSteps : AudioClock(d)
  \/ \E duration \in BlockDurations : PlayChunk(duration)
  \/ StopAll
  \/ \E s \in sources : SourceEnded(s)

AudioSpec == AudioInit /\ [][AudioNext]_vars

(***************************************************************************)
(* audioUtils: the resampler and the PCM codec, as pure functions.  A      *)
(* Float32Array is a sequence; index j of the code is element j + 1.       *)
(* Sample values are exact quotients [num, den].                           *)
(***************************************************************************)
MaxBlock == 5
MaxSamples == 2

\* const outputRate = 16000
TargetRate == 16000

\* sample rates an input AudioContext may run at
InputRates == {8000, 16000, 24000, 44100, 48000}

\* the sample values of the blocks given to the resampler
Amplitudes == {-1, 1}

DspOthers == <<orch, apiKey, rt, schedLog, relay, sessionVars, assetVars>>

\* Math.floor(a / b) for b > 0
Floor(a, b) == a \div b

\* Math.ceil(a / b) for b > 0
Ceil(a, b) == (a + b - 1) \div b

\* buffer[j]; 0 stands in where the code would read undefined
At(buffer, j) == IF j \in 0..(Len(buffer) - 1) THEN buffer[j + 1] ELSE 0

RECURSIVE SumOver(_, _)
SumOver(buffer, js) ==
  IF js = {} THEN 0
  ELSE LET j == CHOOSE x \in js : TRUE
       IN  At(buffer, j) + SumOver(buffer, js \ {j})

\* one output sample: its value and the input indices it was computed from
Sample(reads, num, den) == [reads |-> reads, num |-> num, den |-> den]

\* output sample i of the averaging variant
Boxcar(buffer, inputRate, i) ==
  LET start == Floor(i * inputRate, TargetRate)
      end == Floor((i + 1) * inputRate, TargetRate)
      js == {j \in start..(end - 1) : j < Len(buffer)}
      count == Cardinality(js)
  IN  IF count > 0 THEN Sample(js, SumOver(buffer, js), count)
      ELSE Sample({start}, At(buffer, start), 1)

\* the interpolation reading buffer[index + 1] whatever the index
HasNextAlways(buffer, index) == TRUE

\* index + 1 < buffer.length
HasNext(buffer, index) == index + 1 < Len(buffer)

\* output sample i of the linear-interpolation variant
Linear(buffer, inputRate, i) ==
  LET index == Floor(i * inputRate, TargetRate)
      fraction == (i * inputRate) % TargetRate
  IN  IF HasNext(buffer, index)
        THEN Sample({index, index + 1},
                    At(buffer, index) * TargetRate
                      + fraction * (At(buffer, index + 1) - At(buffer, index)),
                    TargetRate)
        ELSE Sample({index}, At(buffer, index), 1)

\* a buffer handed back as it is
Same(buffer) == [i \in 1..Len(buffer) |-> Sample({i - 1}, buffer[i], 1)]

downsampleTo16k(variant, buffer, inputRate) ==
  IF inputRate = TargetRate THEN Same(buffer)
  ELSE LET newLength == Ceil(Len(buffer) * TargetRate, inputRate)
       IN  [i \in 1..newLength |->
              IF variant = "boxcar" THEN Boxcar(buffer, inputRate, i - 1)
              ELSE Linear(buffer, inputRate, i - 1)]

Blocks == UNION {[1..n -> Amplitudes] : n \in 0..MaxBlock}

\* onaudioprocess hands one captured block to the resampler
Downsample ==
  /\ dsp.pc = "block"
  /\ dsp' = [dsp EXCEPT !.pc = "resampled",
                        !.result = downsampleTo16k(dsp.variant, dsp.buffer,
                                                   dsp.inputRate)]
  /\ UNCHANGED DspOthers

ResampleInit ==
  /\ relay = [pc |-> "idle"]
  /\ apiKey = TRUE
  /\ rt = [pc |-> "idle"]
  /\ schedLog = <<>>
  /\ \E variant \in {"boxcar", "linear"}, buffer \in Blocks, inputRate \in InputRates :
       dsp = [pc |-> "block", variant |-> variant, buffer |-> buffer,
              inputRate |-> inputRate, result |-> <<>>]
  /\ SessionInit(FALSE, [docs |-> 0, ragMode |-> FALSE])
  /\ AssetStart

ResampleNext == Downsample

ResampleSpec == ResampleInit /\ [][ResampleNext]_vars

(***************************************************************************)
(* The PCM codec.  Input samples are counted in units of 1/32768, so 1.0   *)
(* is 32768, 1.5 is 49152 and -2.0 is -65536.                              *)
(***************************************************************************)
\* inputData[i] / 32768.0
FullScale == 32768

\* ... * 32767
Scale == 32767

\* the "=" of base64, next to the 64 digits 0..63
Pad == 64

\* a sample handed on as it is
ClampNone(x) == x

\* Math.max(-1, Math.min(1, data[i]))
Clamp(x) ==
  IF x > FullScale THEN FullScale ELSE IF x < -FullScale THEN -FullScale ELSE x

\* the integer part of a / b, towards zero (b > 0)
Trunc(a, b) == IF a >= 0 THEN a \div b ELSE -((-a) \div b)

\* storing an integer in an Int16Array: modulo 2^16, read as signed
ToInt16(v) == LET m == v % 65536 IN IF m >= 32768 THEN m - 65536 ELSE m

\* int16[i] = Math.max(-1, Math.min(1, data[i])) * 32767
Quantize(x) == ToInt16(Trunc(Clamp(x) * Scale, FullScale))

\* new Uint8Array(int16.buffer): two bytes per element, low byte first
RECURSIVE Uint8Array(_)
Uint8Array(int16) ==
  IF int16 = <<>> THEN <<>>
  ELSE LET u == int16[1] % 65536
       IN  <<u % 256, u \div 256>> \o Uint8Array(Tail(int16))

\* btoa of the binary string of these bytes, as base64 digits
RECURSIVE btoa(_)
btoa(b) ==
  IF Len(b) = 0 THEN <<>>
  ELSE IF Len(b) = 1
    THEN <<b[1] \div 4, (b[1] % 4) * 16, Pad, Pad>>
  ELSE IF Len(b) = 2
    THEN <<b[1] \div 4, (b[1] % 4) * 16 + b[2] \div 16, (b[2] % 16) * 4, Pad>>
  ELSE <<b[1] \div 4, (b[1] % 4) * 16 + b[2] \div 16,
         (b[2] % 16) * 4 + b[3] \div 64, b[3] % 64>> \o btoa(SubSeq(b, 4, Len(b)))

\* atob: the bytes of the binary string these base64 digits stand for
RECURSIVE atob(_)
atob(s) ==
  IF Len(s) < 4 THEN <<>>
  ELSE LET first == s[1] * 4 + s[2] \div 16
           second == (s[2] % 16) * 16 + s[3] \div 4
           third == (s[3] % 4) * 64 + s[4]
       IN  IF s[3] = Pad THEN <<first>>
           ELSE IF s[4] = Pad THEN <<first, second>>
           ELSE <<first, second, third>> \o atob(SubSeq(s, 5, Len(s)))

\* createPcmBlob(data).data
createPcmBlob(data) ==
  btoa(Uint8Array([i \in 1..Len(data) |-> Quantize(data[i])]))

base64ToPCM(base64) == atob(base64)

\* an element of an Int16Array read with the high byte first
Int16AtBigEndian(low, high) == ToInt16(low * 256 + high)

\* an element of an Int16Array over bytes low, high
Int16At(low, high) == ToInt16(high * 256 + low)

\* new Int16Array(pcmData, 0, alignedLength / 2)
Int16Array(pcmData) ==
  LET alignedLength == Len(pcmData) - (Len(pcmData) % 2)
  IN  [i \in 1..(alignedLength \div 2) |-> Int16At(pcmData[2 * i - 1], pcmData[2 * i])]

\* ctx.createBuffer(1, length, sampleRate): the Web Audio API rejects a
\* buffer of no frames by throwing NotSupportedError
createBuffer(length) == [threw |-> length < 1, length |-> length]

\* convertPCMToAudioBuffer(ctx, pcmData): whether it threw, and the channel
\* data of the buffer it returned
convertPCMToAudioBuffer(pcmData) ==
  LET inputData == Int16Array(pcmData)
      audioBuffer == createBuffer(Len(inputData))
  IN  IF audioBuffer.threw THEN [threw |-> TRUE, channelData |-> <<>>]
      ELSE [threw |-> FALSE,
            channelData |-> [i \in 1..audioBuffer.length |->
                               [num |-> inputData[i], den |-> FullScale]]]

\* samples at and around the ends of the range
EdgeSamples == {-65536, -32769, -32768, -1, 0, 1, 32768, 49152}

PcmBlocks ==
  {<<x>> : x \in (-FullScale)..FullScale}
    \cup UNION {[1..n -> EdgeSamples] : n \in 0..MaxSamples}

\* createPcmBlob on a block of samples
Encode ==
  /\ dsp.pc = "samples"
  /\ dsp' = [dsp EXCEPT !.pc = "encoded", !.payload = createPcmBlob(dsp.data)]
  /\ UNCHANGED DspOthers

\* base64ToPCM and convertPCMToAudioBuffer on the payload
Decode ==
  /\ dsp.pc = "encoded"
  /\ LET audioBuffer == convertPCMToAudioBuffer(base64ToPCM(dsp.payload))
     IN  dsp' = [dsp EXCEPT !.pc = IF audioBuffer.threw THEN "failed" ELSE "decoded",
                            !.channelData = audioBuffer.channelData]
  /\ UNCHANGED DspOthers

PcmInit ==
  /\ relay = [pc |-> "idle"]
  /\ apiKey = TRUE
  /\ rt = [pc |-> "idle"]
  /\ schedLog = <<>>
  /\ \E data \in PcmBlocks :
       dsp = [pc |-> "samples", data |-> data, payload |-> <<>>, channelData |-> <<>>]
  /\ SessionInit(FALSE, [docs |-> 0, ragMode |-> FALSE])
  /\ AssetStart

PcmNext == Encode \/ Decode

PcmSpec == PcmInit /\ [][PcmNext]_vars

\* the longest payload handed to the decoder, in bytes
MaxBytes == 4

\* byte values at and around the ends of the range
EdgeBytes == {0, 1, 127, 128, 255}

\* the payloads of inbound audio parts, of even and of odd length
Payloads == UNION {[1..n -> EdgeBytes] : n \in 0..MaxBytes}

\* playAudioChunk's call of convertPCMToAudioBuffer on an inbound payload
Convert ==
  /\ dsp.pc = "payload"
  /\ LET audioBuffer == convertPCMToAudioBuffer(dsp.pcmData)
     IN  dsp' = [dsp EXCEPT !.pc = IF audioBuffer.threw THEN "failed" ELSE "converted",
                            !.channelData = audioBuffer.channelData]
  /\ UNCHANGED DspOthers

InboundInit ==
  /\ relay = [pc |-> "idle"]
  /\ apiKey = TRUE
  /\ rt = [pc |-> "idle"]
  /\ schedLog = <<>>
  /\ \E pcmData \in Payloads :
       dsp = [pc |-> "payload", pcmData |-> pcmData, channelData |-> <<>>]
  /\ SessionInit(FALSE, [docs |-> 0, ragMode |-> FALSE])
  /\ AssetStart

InboundNext == Convert

InboundSpec == InboundInit /\ [][InboundNext]_vars

(***************************************************************************)
(* The knowledge context of the session instruction.  A text is a sequence *)
(* of pieces: a run of n characters none of which is a dollar sign, one of *)
(* the two-character sequences String.prototype.replace reads as a         *)
(* replacement pattern, or a single dollar sign that starts no pattern.    *)
(***************************************************************************)
\* the most documents loaded
MaxDocs == 2

\* fullText.length > 25000, fullText.substring(0, 25000)
ContextCap == 25000

\* "\n\n[...SYSTEM NOTE: REMAINING DATA TRUNCATED...]".length
NoticeLen == 47

\* "NO DOCUMENTS LOADED. DATABASE IS EMPTY.".length
EmptyLen == 39

\* "[SOURCE DOCUMENT: ".length + "]\n".length
TagLen == 20

\* the length of the names of the documents loaded
NameLen == 5

\* '\n\n'.length
SeparatorLen == 2

\* '{{DOCUMENTS}}'.length
PlaceholderLen == 13

\* the lengths of BASE_INSTRUCTION_RAG before and after {{DOCUMENTS}}
BeforeLen == 125
AfterLen == 441

\* BASE_INSTRUCTION_STANDARD.length
StandardLen == 424

Run(of, n) == [t |-> "run", of |-> of, n |-> n]

Patterns == {"$$", "$&", "$`", "$'"}

Pattern(p) == [t |-> p, of |-> "content", n |-> 2]

Dollar == [t |-> "$", of |-> "content", n |-> 1]

\* text.length
RECURSIVE Length(_)
Length(text) == IF text = <<>> THEN 0 ELSE text[1].n + Length(Tail(text))

\* text.substring(0, end)
RECURSIVE substring(_, _)
substring(text, end) ==
  IF text = <<>> \/ end <= 0 THEN <<>>
  ELSE LET piece == text[1]
       IN  IF piece.n <= end
             THEN <<piece>> \o substring(Tail(text), end - piece.n)
           ELSE IF piece.t = "run" THEN <<[piece EXCEPT !.n = end]>>
           ELSE <<Dollar>>

\* contextDocs.join('\n\n')
RECURSIVE join(_)
join(contextDocs) ==
  IF contextDocs = <<>> THEN <<>>
  ELSE IF Len(contextDocs) = 1 THEN contextDocs[1]
  ELSE contextDocs[1] \o <<Run("separator", SeparatorLen)>> \o join(Tail(contextDocs))

\* what replace() puts in place of the match for the replacement string
\* given: $$ is a dollar sign, $& the match, $` the text before the match,
\* $' the text after it, everything else itself
GetSubstitution(replacement) ==
  [i \in 1..Len(replacement) |->
     LET piece == replacement[i]
     IN  CASE piece.t = "$$" -> Dollar
           [] piece.t = "$&" -> Run("placeholder", PlaceholderLen)
           [] piece.t = "$`" -> Run("before", BeforeLen)
           [] piece.t = "$'" -> Run("after", AfterLen)
           [] OTHER -> piece]

\* docsText as connect() computes it
docsText(contextDocs) ==
  IF Len(contextDocs) > 0
    THEN LET fullText == join(contextDocs)
         IN  IF Length(fullText) > ContextCap
               THEN substring(fullText, ContextCap) \o <<Run("notice", NoticeLen)>>
               ELSE fullText
    ELSE <<Run("empty", EmptyLen)>>

\* isRagMode ? BASE_INSTRUCTION_RAG.replace('{{DOCUMENTS}}', docsText)
\*           : BASE_INSTRUCTION_STANDARD
baseInstruction(contextDocs, isRagMode) ==
  IF isRagMode
    THEN <<Run("before", BeforeLen)>> \o GetSubstitution(docsText(contextDocs))
           \o <<Run("after", AfterLen)>>
    ELSE <<Run("standard", StandardLen)>>

\* ragMode ? documents.map(d => `[SOURCE DOCUMENT: ${d.name}]\n${d.content}`) : []
docContents(documents, ragMode) ==
  IF ragMode
    THEN [i \in 1..Len(documents) |->
            <<Run("tag", TagLen + documents[i].name)>> \o documents[i].content]
    ELSE <<>>

\* the contents of the documents loaded: short ones, ones that reach the cap
\* alone or in pairs, and ones with dollar signs in them
Contents ==
  {<<>>} \cup {<<Run("content", n)>> : n \in {10, 12474, 12475, 24975, 24976, 30000}}
    \cup {<<Run("content", 10), Pattern("$$"), Run("content", 5)>>,
          <<Pattern("$&")>>, <<Pattern("$`")>>,
          <<Run("content", 24900), Pattern("$'")>>,
          <<Run("content", 24974), Pattern("$$")>>}

KnowledgeDocuments ==
  UNION {[1..n -> [name : {NameLen}, content : Contents]] : n \in 0..MaxDocs}

\* startSession building the texts it hands to connect()
MapDocuments ==
  /\ dsp.pc = "documents"
  /\ dsp' = [dsp EXCEPT !.pc = "mapped",
                        !.contextDocs = docContents(dsp.documents, dsp.ragMode)]
  /\ UNCHANGED DspOthers

\* connect() building the instruction of the session
Assemble ==
  /\ dsp.pc = "mapped"
  /\ dsp' = [dsp EXCEPT !.pc = "assembled",
                        !.instruction = baseInstruction(dsp.contextDocs, dsp.ragMode)]
  /\ UNCHANGED DspOthers

KnowledgeInit ==
  /\ relay = [pc |-> "idle"]
  /\ apiKey = TRUE
  /\ rt = [pc |-> "idle"]
  /\ schedLog = <<>>
  /\ \E documents \in KnowledgeDocuments, ragMode \in BOOLEAN :
       dsp = [pc |-> "documents", documents |-> documents, ragMode |-> ragMode,
              contextDocs |-> <<>>, instruction |-> <<>>]
  /\ SessionInit(FALSE, [docs |-> 0, ragMode |-> FALSE])
  /\ AssetStart

KnowledgeNext == MapDocuments \/ Assemble

KnowledgeSpec == KnowledgeInit /\ [][KnowledgeNext]_vars

(***************************************************************************)
(* The orchestrator of the split architecture: the live session relays     *)
(* speech, a text model answers.  relay holds the processing stage, the    *)
(* active attempt and the state of its client, the user text accumulated,  *)
(* the setTimeout callbacks pending and the reasoning requests in flight.  *)
(***************************************************************************)
\* the most attempts and the most turn-complete events of a run
MaxRelayAttempts == 2
MaxTurns == 3

RelayOthers == <<orch, apiKey, rt, schedLog, dsp, sessionVars, assetVars>>

\* the user transcripts a turn can have accumulated
UserTexts == {<<>>, <<" ">>, <<"q">>, <<"q", "q">>, <<" ", "q", " ">>}

RECURSIVE TrimStart(_)
TrimStart(text) ==
  IF text # <<>> /\ text[1] = " " THEN TrimStart(Tail(text)) ELSE text

RECURSIVE TrimEnd(_)
TrimEnd(text) ==
  IF text # <<>> /\ text[Len(text)] = " "
    THEN TrimEnd(SubSeq(text, 1, Len(text) - 1)) ELSE text

\* text.trim()
trim(text) == TrimEnd(TrimStart(text))

\* userQuery && userQuery.trim().length > 1
HasQuery(userQuery) == userQuery # <<>> /\ Len(trim(userQuery)) > 1

\* startSession() of a new attempt, to its call of client.connect()
RelayStartSession ==
  /\ relay.seq < MaxRelayAttempts
  /\ relay' = [relay EXCEPT !.seq = @ + 1, !.active = relay.seq + 1,
                            !.conn = "connecting",
                            !.accumulatedUser = <<>>, !.stage = "idle"]
  /\ UNCHANGED RelayOthers

\* onStateChange(CONNECTED) of the active attempt
RelayConnected ==
  /\ relay.active # 0 /\ relay.conn = "connecting"
  /\ relay' = [relay EXCEPT !.conn = "connected", !.stage = "listening"]
  /\ UNCHANGED RelayOthers

\* onStateChange(DISCONNECTED) of the active attempt
RelayDisconnected ==
  /\ relay.active # 0 /\ relay.conn \in {"connecting", "connected"}
  /\ relay' = [relay EXCEPT !.conn = "closed", !.stage = "idle"]
  /\ UNCHANGED RelayOthers

\* stopSession()
RelayStopSession ==
  /\ relay.active # 0
  /\ relay' = [relay EXCEPT !.active = 0, !.conn = "closed", !.stage = "idle"]
  /\ UNCHANGED RelayOthers

\* onTranscript(user, model)
RelayTranscript(user) ==
  /\ relay.active # 0 /\ relay.conn = "connected"
  /\ relay' = [relay EXCEPT !.accumulatedUser = IF user # <<>> THEN user ELSE @]
  /\ UNCHANGED RelayOthers

\* onTurnComplete()
RelayTurnComplete ==
  /\ relay.active # 0 /\ relay.conn = "connected"
  /\ relay.turns < MaxTurns
  /\ LET userQuery == relay.accumulatedUser
         r == [relay EXCEPT !.turns = @ + 1]
     IN  relay' =
           IF relay.stage = "listening"
             THEN IF HasQuery(userQuery)
                    THEN [r EXCEPT !.stage = "thinking",
                                   !.timeouts = @ \cup {[id |-> r.turns,
                                                         attempt |-> relay.active,
                                                         userQuery |-> userQuery]}]
                    ELSE [r EXCEPT !.stage = "thinking"]
           ELSE IF relay.stage = "replying" THEN [r EXCEPT !.stage = "listening"]
           ELSE r
  /\ UNCHANGED RelayOthers

\* onInterrupted()
RelayInterrupted ==
  /\ relay.active # 0 /\ relay.conn = "connected"
  /\ relay' = [relay EXCEPT !.stage = "listening"]
  /\ UNCHANGED RelayOthers

\* the setTimeout callback of onTurnComplete, to its await of
\* generateBrainResponse()
RelayTimeout(t) ==
  /\ t \in relay.timeouts
  /\ relay' = [relay EXCEPT !.timeouts = @ \ {t}, !.requests = @ \cup {t},
                            !.stage = "thinking"]
  /\ UNCHANGED RelayOthers

\* generateBrainResponse() returns and the callback goes on
RelayAnswer(t) ==
  /\ t \in relay.requests
  /\ relay' = IF relay.active = t.attempt
                THEN [relay EXCEPT !.requests = @ \ {t}, !.stage = "replying",
                                   !.answered = @ \cup {t.id},
                                   !.accumulatedUser = <<>>]
                ELSE [relay EXCEPT !.requests = @ \ {t}]
  /\ UNCHANGED RelayOthers

RelayInit ==
  /\ relay = [pc |-> "run", stage |-> "idle", seq |-> 0, active |-> 0,
              conn |-> "closed", accumulatedUser |-> <<>>, turns |-> 0,
              timeouts |-> {}, requests |-> {}, answered |-> {}]
  /\ apiKey = TRUE
  /\ rt = [pc |-> "idle"]
  /\ schedLog = <<>>
  /\ dsp = [pc |-> "idle"]
  /\ SessionInit(FALSE, [docs |-> 0, ragMode |-> FALSE])
  /\ AssetStart

RelayNext ==
  \/ RelayStartSession
  \/ RelayConnected
  \/ RelayDisconnected
  \/ RelayStopSession
  \/ \E user \in UserTexts : RelayTranscript(user)
  \/ RelayTurnComplete
  \/ RelayInterrupted
  \/ \E t \in relay.timeouts : RelayTimeout(t)
  \/ \E t \in relay.requests : RelayAnswer(t)

RelaySpec == RelayInit /\ [][RelayNext]_vars

\* a timer set fires, and generateBrainResponse(), which catches what its
\* request throws, returns
RelayFairSpec ==
  /\ RelaySpec
  /\ WF_vars(\E t \in relay.timeouts : RelayTimeout(t))
  /\ WF_vars(\E t \in relay.requests : RelayAnswer(t))

(***************************************************************************)
(* Steps in which handlers of the client of attempt k may run.             *)
(***************************************************************************)
SessionCallback(k) ==
  \/ MicGranted(k)
  \/ MicDenied(k)
  \/ ConnectResolve(k)
  \/ \E e \in ConnectErrors : ConnectReject(k, e)
  \/ \E m \in ServerMessages : WsMessage(k, m)
  \/ \E e \in CloseEvents : WsClose(k, e)
  \/ WsError(k)
  \/ \E vol \in {"loud", "quiet"}, send \in {"ok", "fail"} : Capture(k, vol, send)

(***************************************************************************)
(* C1.  Once attempt k is no longer the active attempt, no event of its    *)
(* client (state change, audio, transcript, turn-complete, interruption,   *)
(* volume, error, or the settling of its connect()) changes anything the   *)
(* orchestrator holds: connection state, log, open message ids, live-set,  *)
(* cursor, speaking flags, auto-reconnect preference, reconnect timer.     *)
(***************************************************************************)
C1_StaleCallbacksAreNoOps ==
  [][\A k \in Attempts :
       (clients[k].made /\ orch.activeSessionId # k /\ SessionCallback(k))
         => UNCHANGED <<orch, timers, sources, turnCalls>>]_vars

\* attempt 2 was started while connect() of attempt 1 was pending, and a
\* transcript of attempt 1 arrived afterwards without reaching the log
C1_Witness ==
  /\ orch.activeSessionId = 2
  /\ clients[1].conn = "pending"
  /\ clients[1].currentOutputTranscript # <<>>
  /\ \A i \in 1..Len(messages) : messages[i].text # "Transcript"

(***************************************************************************)
(* An unexpected loss of the established connection of the active attempt, *)
(* delivered to the orchestrator while auto-reconnect is on.               *)
(***************************************************************************)
UnexpectedDisconnect(k) ==
  /\ orch.activeSessionId = k
  /\ orch.autoconnect
  /\ clients[k].handlers
  /\ clients[k].state = "CONNECTED"
  /\ clients'[k].state = "DISCONNECTED"

(***************************************************************************)
(* C2 as claimed.  When the session is lost less than 10 s after it became *)
(* Connected, auto-reconnect is switched off and no timer is scheduled;    *)
(* otherwise exactly one timer is scheduled.                               *)
(***************************************************************************)
C2_Original ==
  [][\A k \in Attempts :
       UnexpectedDisconnect(k) =>
         IF now - clients[k].connectedAt < MinSessionMs
           THEN ~orch'.autoconnect /\ timers' = timers
           ELSE timers \subseteq timers' /\ Cardinality(timers' \ timers) = 1]_vars

(***************************************************************************)
(* C2 as amended.  The time is taken from the start of the attempt: when   *)
(* the session is lost more than 10 s after startSession was invoked,      *)
(* exactly one timer is scheduled, for this attempt and 3 s ahead, and     *)
(* auto-reconnect stays on; otherwise auto-reconnect is switched off and   *)
(* no timer is scheduled.                                                  *)
(***************************************************************************)
C2_CrashLoopGuard ==
  [][\A k \in Attempts :
       UnexpectedDisconnect(k) =>
         IF now - orch.sessionStartTime > MinSessionMs
           THEN /\ orch'.autoconnect
                /\ Cardinality(timers') = Cardinality(timers) + 1
                /\ timers' = timers \cup {[id |-> orch'.reconnectTimeoutRef,
                                           attempt |-> k,
                                           due |-> now + ReconnectDelayMs]}
           ELSE ~orch'.autoconnect /\ timers' = timers]_vars

\* a session that became Connected late in its attempt was lost at once, and
\* a later session was lost within 10 s of its start
C2_Witness ==
  /\ \E i \in 1..Len(messages) : messages[i].text = "Reconnecting"
  /\ \E i \in 1..Len(messages) : messages[i].text = "Unstable"
  /\ \E k \in Attempts : clients[k].connectedAt > 0 /\ clients[k].state = "DISCONNECTED"

(***************************************************************************)
(* C3.  When the remote side closes the established connection of the      *)
(* active attempt with a reason naming quota or billing, or with code      *)
(* 1009, then, however long the session has lasted, after                  *)
(* the close has been handled auto-reconnect is off and no reconnect timer *)
(* of that attempt is pending.                                             *)
(***************************************************************************)
FatalEvent(e) ==
  \/ Includes(ToLowerCase(e.reason), <<"quota">>)
  \/ Includes(ToLowerCase(e.reason), <<"billing">>)
  \/ e.code = 1009

C3_FatalFailure ==
  [][\A k \in Attempts, e \in CloseEvents :
       (/\ orch.activeSessionId = k
        /\ clients[k].handlers
        /\ clients[k].state = "CONNECTED"
        /\ FatalEvent(e)
        /\ WsClose(k, e))
         => /\ ~orch'.autoconnect
            /\ \A t \in timers' : t.attempt # k]_vars

(***************************************************************************)
(* C4.  When stopSession returns, no startSession having been invoked      *)
(* while it ran, the active attempt id is empty, auto-reconnect is off, no *)
(* timer is pending, the live-set is empty and the model is not speaking,  *)
(* both open message ids are empty and the connection state is             *)
(* Disconnected.                                                           *)
(***************************************************************************)
StopReturnsAtOnce ==
  /\ StopSession
  /\ \A k \in Attempts :
       Suspended("stop", attempts) \notin (clients'[k].pending \ clients[k].pending)

StopReturnsLater ==
  \E k \in Attempts :
    \E d \in clients[k].pending :
      d.caller = "stop" /\ d.tag = attempts /\ DisconnectResume(k, d)

Stopped ==
  /\ orch.activeSessionId = 0
  /\ ~orch.autoconnect
  /\ timers = {}
  /\ orch.activeAudioSources = {}
  /\ ~orch.isSpeaking
  /\ orch.activeMessageIds = NoIds
  /\ orch.connectionState = "DISCONNECTED"

C4_StopPostcondition ==
  [][(StopReturnsAtOnce \/ StopReturnsLater) => Stopped']_vars

\* stopSession has torn down a session that had been established
C4_Witness ==
  /\ Stopped
  /\ \E i \in 1..Len(messages) : messages[i].text = "Online"
  /\ \E k \in Attempts :
       /\ clients[k].opened /\ clients[k].state = "DISCONNECTED"
       /\ ~clients[k].handlers /\ clients[k].pending = {}
       /\ ~clients[k].session /\ clients[k].conn = "done"

(***************************************************************************)
(* C5.  If stopSession is called while connect() of the active attempt is  *)
(* pending, that attempt's client is Disconnected when stopSession         *)
(* returns, and afterwards it neither opens its transport, nor acquires    *)
(* the microphone, nor becomes Connected.                                  *)
(***************************************************************************)
C5_StopDuringConnect ==
  [][\A k \in Attempts :
       /\ (StopSession /\ orch.activeSessionId = k /\ clients[k].conn = "pending")
            => clients'[k].state = "DISCONNECTED"
       /\ (orch.activeSessionId = 0 /\ attempts = k /\ clients[k].conn = "pending")
            => /\ ~(clients[k].ws # "open" /\ clients'[k].ws = "open")
               /\ ~(clients[k].stream # "live" /\ clients'[k].stream = "live")
               /\ ~(clients[k].state # "CONNECTED" /\ clients'[k].state = "CONNECTED")
    ]_vars

(***************************************************************************)
(* C6.  At most one client holds the microphone or is in Connecting or     *)
(* Connected at any instant.                                               *)
(***************************************************************************)
Engaged(k) ==
  /\ clients[k].made
  /\ \/ clients[k].state \in {"CONNECTING", "CONNECTED"}
     \/ clients[k].stream = "live"

C6_MicrophoneExclusive == Cardinality({k \in Attempts : Engaged(k)}) <= 1

(***************************************************************************)
(* Helpers of the properties.                                              *)
(***************************************************************************)
IsPrefix(s, t) == Len(s) <= Len(t) /\ \A i \in 1..Len(s) : s[i] = t[i]

Count(s, x) == Cardinality({i \in 1..Len(s) : s[i] = x})

Idle == assetQueue = <<>> /\ ~isProcessing

VideoRunning == \E r \in running : r.job.type = "video"

FailureEntries(d) ==
  {i \in 1..Len(messages) : messages[i].text = "GenerationFailed" /\ messages[i].ref = d}

(***************************************************************************)
(* C7.  At every instant at most one generation call is outstanding, and   *)
(* while the processing flag is set no job is taken from the queue or      *)
(* dispatched, however many are enqueued or approved meanwhile.            *)
(***************************************************************************)
C7_SingleFlight ==
  /\ [](Cardinality(running) <= 1)
  /\ [][isProcessing => (dispLog' = dispLog /\ Len(assetQueue') >= Len(assetQueue))]_vars

\* a call is outstanding while two more jobs wait in the queue
C7_Witness == isProcessing /\ Cardinality(running) = 1 /\ Len(assetQueue) >= 2

C9_AssetAccounting ==
  /\ [](Len(assets) = Cardinality({i \in 1..Len(doneLog) : doneLog[i][2] = "ok"}))
  /\ [][Len(doneLog') = Len(doneLog) + 1 =>
          LET out == doneLog'[Len(doneLog')] IN
          IF out[2] = "ok"
            THEN /\ Len(assets') = Len(assets) + 1
                 /\ SubSeq(assets', 1, Len(assets)) = assets
                 /\ assets'[Len(assets')].description = out[1]
                 /\ activeAssetId' = assets'[Len(assets')].id
            ELSE assets' = assets /\ activeAssetId' = activeAssetId]_vars

\* a successful job and a failed job have both finished
C9_Witness ==
  /\ Len(assets) = 1 /\ activeAssetId = assets[1].id
  /\ \E i \in 1..Len(doneLog) : doneLog[i][2] = "throw"
  /\ \E i \in 1..Len(doneLog) : doneLog[i][2] = "ok"

(***************************************************************************)
(* C10.  A job whose generation call threw was dispatched exactly once, is *)
(* not in the queue again, and has exactly one error entry in the log; the *)
(* processing flag is set only while a call is outstanding, so that the    *)
(* next queued job can be dispatched.                                      *)
(***************************************************************************)
C10_FailureHandling ==
  /\ \A i \in 1..Len(doneLog) :
       doneLog[i][2] = "throw" =>
         /\ Count(dispLog, doneLog[i][1]) = 1
         /\ \A k \in 1..Len(assetQueue) : assetQueue[k].description # doneLog[i][1]
         /\ Cardinality(FailureEntries(doneLog[i][1])) = 1
  /\ (running = {} => ~isProcessing)
  /\ (running = {} /\ assetQueue # <<>> => ENABLED ProcessQueue)

\* the first job threw and the job queued behind it has been dispatched
C10_Witness ==
  /\ Len(doneLog) >= 1 /\ doneLog[1][2] = "throw"
  /\ Len(dispLog) >= 2 /\ dispLog[2] = enqLog[2]

(***************************************************************************)
(* C11.  When operation() rejects with a status in 400..499 other than     *)
(* 429, retryWithBackoff rethrows that error at once: operation() is not   *)
(* invoked again and no delay is started; when it was the first call,      *)
(* operation() has been invoked exactly once and nothing was waited for.   *)
(***************************************************************************)
ClientError(status) == status >= 400 /\ status <= 499 /\ status # 429

C11_FailFast ==
  /\ [][\A status \in Statuses :
          (ClientError(status) /\ OperationRejects(status)) =>
            /\ rt'.pc = "thrown" /\ rt'.thrown = status
            /\ rt'.invoked = rt.invoked /\ rt'.waits = rt.waits]_vars
  /\ [][rt.pc = "thrown" => rt' = rt]_vars
  /\ []((rt.pc = "thrown" /\ Len(rt.errors) = 1 /\ ClientError(rt.errors[1]))
          => (rt.invoked = 1 /\ rt.waits = <<>>))

\* a call with retries left has failed on a 404
C11_Witness ==
  /\ rt.pc = "thrown" /\ rt.errors = <<404>> /\ rt.retries0 = CallerRetries
  /\ rt.invoked = 1 /\ rt.waits = <<>>

(***************************************************************************)
(* Every call of operation() rejected, each time with the same retryable   *)
(* error: status 500, status 429, or no status.                            *)
(***************************************************************************)
Retryable == {0, 429, 500}

AlwaysFailed ==
  /\ rt.pc = "thrown"
  /\ \E status \in Retryable : \A i \in 1..Len(rt.errors) : rt.errors[i] = status

Doubling(waits, delay) ==
  \A i \in 1..Len(waits) :
    waits[i] = IF i = 1 THEN delay ELSE 2 * waits[i - 1]

(***************************************************************************)
(* C12 as claimed.  With retries = 3 and an initial delay of 1000 ms, an   *)
(* operation that always fails with 500, with 429 or without a status is   *)
(* invoked exactly 3 times, the waits doubling from 1000 ms, and the last  *)
(* error is rethrown.                                                      *)
(***************************************************************************)
C12_Original ==
  (AlwaysFailed /\ rt.retries0 = CallerRetries /\ rt.delay0 = CallerDelayMs)
    => /\ rt.invoked = 3
       /\ Doubling(rt.waits, CallerDelayMs)
       /\ rt.thrown = rt.errors[Len(rt.errors)]

(***************************************************************************)
(* C12 as amended.  Such an operation is invoked exactly 4 times, the      *)
(* first call and 3 retries, after waits of 1000, 2000 and 4000 ms, and    *)
(* the last error is rethrown, the same for 429, 500 and no status; in     *)
(* general it is invoked retries + 1 times, and never more often.          *)
(***************************************************************************)
C12_RetryBudget ==
  /\ (AlwaysFailed /\ rt.retries0 = CallerRetries /\ rt.delay0 = CallerDelayMs)
       => /\ rt.invoked = 4
          /\ rt.waits = <<1000, 2000, 4000>>
          /\ rt.thrown = rt.errors[Len(rt.errors)]
  /\ AlwaysFailed
       => /\ rt.invoked = rt.retries0 + 1
          /\ Len(rt.waits) = rt.retries0
          /\ Doubling(rt.waits, rt.delay0)
          /\ Len(rt.errors) = rt.invoked
  /\ rt.pc # "idle" => rt.invoked <= rt.retries0 + 1

\* the callers' parameters and a rate limit answered to every call
C12_Witness ==
  /\ rt.pc = "thrown" /\ rt.retries0 = CallerRetries /\ rt.delay0 = CallerDelayMs
  /\ rt.errors = <<429, 429, 429, 429>> /\ rt.thrown = 429

(***************************************************************************)
(* C13.  In a run of blocks passed to playAudioChunk while the audio clock *)
(* does not go back, with no stopAllAudio() in between, every block starts *)
(* no earlier than the block before it ends, and no earlier than the clock *)
(* at the time it is scheduled plus the safety margin.                     *)
(***************************************************************************)
OnlyBlocks == \A i \in 1..Len(schedLog) : schedLog[i].op = "play"

StartsAfterMargin(b) == b.start >= b.at + SafetyMarginMs

C13_SchedulerMonotone ==
  OnlyBlocks =>
    \A i \in 1..Len(schedLog) :
      /\ StartsAfterMargin(schedLog[i])
      /\ i > 1 => schedLog[i].start >= schedLog[i - 1].start + schedLog[i - 1].duration

(***************************************************************************)
(* C14.  Right after stopAllAudio() the live-set is empty and the model is *)
(* not speaking, and the block scheduled next starts no earlier than the   *)
(* clock at the time it is scheduled plus the safety margin.               *)
(***************************************************************************)
C14_StopAllResets ==
  /\ [][StopAll => (orch'.activeAudioSources = {} /\ ~orch'.isSpeaking)]_vars
  /\ [](\A i \in 2..Len(schedLog) :
          (schedLog[i - 1].op = "stop" /\ schedLog[i].op = "play")
            => StartsAfterMargin(schedLog[i]))

(***************************************************************************)
(* C15.  After every step of the scheduler (a block scheduled, a source    *)
(* ended, stopAllAudio()), the model-speaking flag is set exactly when the *)
(* live-set is not empty, also when a source that stopAllAudio() had       *)
(* already removed ends later.                                             *)
(***************************************************************************)
C15_SpeakingIffLive == orch.isSpeaking <=> (orch.activeAudioSources # {})

\* a block was scheduled after stopAllAudio(), and the source stopped by it
\* has ended since, while the new block still plays
C15_Witness ==
  /\ Len(schedLog) = 3
  /\ schedLog[1].op = "play" /\ schedLog[2].op = "stop" /\ schedLog[3].op = "play"
  /\ Cardinality(sources) = 1
  /\ \A s \in sources : ~s.stopped /\ s.id \in orch.activeAudioSources
  /\ orch.isSpeaking

(***************************************************************************)
(* C16.  Once a disconnect() of a client has returned, in whatever state   *)
(* it was called, the client is Disconnected, its microphone stream, its   *)
(* processor and its input context are released, and none of its handlers  *)
(* is invoked any more, whatever the transport or the microphone request   *)
(* report later.                                                           *)
(***************************************************************************)
Released(k) ==
  /\ clients[k].stream # "live"
  /\ ~clients[k].processor
  /\ clients[k].inputContext # "running"

C16_DisconnectPostcondition ==
  \A k \in Attempts :
    clients[k].returned =>
      /\ clients[k].state = "DISCONNECTED"
      /\ Released(k)
      /\ ~clients[k].late

(***************************************************************************)
(* C17.  A client is Connected only if its transport has opened and its    *)
(* microphone request has succeeded, and while it is Connected its         *)
(* microphone stream and its capture processor are installed.              *)
(***************************************************************************)
C17_ConnectedHasMicrophone ==
  \A k \in Attempts :
    clients[k].state = "CONNECTED" =>
      /\ clients[k].opened
      /\ clients[k].mic = "done"
      /\ clients[k].stream = "live"
      /\ clients[k].processor

\* a client has become Connected and the orchestrator has been told
C17_Witness ==
  \E k \in Attempts :
    /\ clients[k].state = "CONNECTED" /\ clients[k].ws = "open"
    /\ orch.activeSessionId = k /\ orch.connectionState = "CONNECTED"

(***************************************************************************)
(* The attempt of client k is over: nothing of it is pending any more.     *)
(***************************************************************************)
Quiet(k) ==
  /\ calls[k].pc = "done"
  /\ clients[k].conn # "pending"
  /\ clients[k].mic # "pending"
  /\ clients[k].pending = {}
  /\ clients[k].ws \in {"none", "closed"}

ErrorLogged == \E i \in 1..Len(messages) : messages[i].text = "Error"

(***************************************************************************)
(* C18.  When the active attempt has failed because the API key is missing *)
(* or because the microphone was denied, an error entry is in the log, no  *)
(* reconnect timer of the attempt is pending and, once the attempt is      *)
(* over, the orchestrator's connection state is Disconnected.              *)
(***************************************************************************)
PreconditionFailed(k) ==
  /\ clients[k].made
  /\ ~apiKey \/ clients[k].mic = "denied"

C18_PreconditionFailure ==
  \A k \in Attempts :
    (orch.activeSessionId = k /\ PreconditionFailed(k) /\ Quiet(k)) =>
      /\ ErrorLogged
      /\ \A t \in timers : t.attempt # k
      /\ orch.connectionState = "DISCONNECTED"

(***************************************************************************)
(* C19.  When the established connection of the active attempt has been    *)
(* lost, by a close event alone or by an error event and the close that    *)
(* follows it, the orchestrator has been given the Disconnected transition *)
(* and has applied its reconnection policy: with auto-reconnect still on,  *)
(* the reconnect timer of the attempt is pending.                          *)
(***************************************************************************)
LossReported(k) ==
  \/ clients[k].lost = "close"
  \/ clients[k].lost = "error" /\ clients[k].ws = "closed" /\ clients[k].pending = {}

C19_UnexpectedDisconnectDelivered ==
  \A k \in Attempts :
    (orch.activeSessionId = k /\ LossReported(k)) =>
      /\ orch.connectionState = "DISCONNECTED"
      /\ orch.autoconnect => \E t \in timers : t.attempt = k

(***************************************************************************)
(* C20.  When the client of the active attempt reports an unexpected       *)
(* Disconnected with auto-reconnect on and more than 10 s after the        *)
(* attempt started, one timer is set 3 s ahead; unless startSession or     *)
(* stopSession is called it stays pending until it fires, it fires once,   *)
(* and firing invokes startSession once, with the documents and the        *)
(* knowledge-mode flag of the lost attempt, and makes the new attempt the  *)
(* active one.                                                             *)
(***************************************************************************)
ReconnectPending(t) == t \in timers /\ t.attempt = orch.activeSessionId

C20_ReconnectProgress ==
  /\ [][\A k \in Attempts :
          (UnexpectedDisconnect(k) /\ now - orch.sessionStartTime > MinSessionMs) =>
            \E t \in timers' \ timers :
              t.attempt = k /\ t.due = now + ReconnectDelayMs /\ ReconnectPending(t)']_vars
  /\ [][\A t \in timers :
          (ReconnectPending(t) /\ ~StartSession /\ ~StopSession /\ ~TimerFire(t))
            => ReconnectPending(t)']_vars
  /\ [][\A t \in timers :
          (ReconnectPending(t) /\ TimerFire(t)) =>
            /\ now >= t.due
            /\ attempts' = attempts + 1
            /\ orch'.activeSessionId = attempts'
            /\ calls'[attempts'].by = "timer"
            /\ calls'[attempts'].cfg = calls[t.attempt].cfg
            /\ timers' = {}]_vars
  /\ [](\A t \in timers :
          (ReconnectPending(t) /\ now >= t.due /\ attempts < MaxAttempts)
            => ENABLED TimerFire(t))
  /\ [](Cardinality({t \in timers : ReconnectPending(t)}) <= 1)

\* the timer has restarted a lost session with the documents the lost
\* attempt was started with, although the App's documents have changed since
C20_Witness ==
  /\ attempts = 2 /\ orch.activeSessionId = 2
  /\ calls[2].by = "timer" /\ calls[2].cfg = calls[1].cfg
  /\ config # calls[1].cfg
  /\ clients[1].lost = "close"

(***************************************************************************)
(* C21.  While a client is not Connected, a message arriving on its        *)
(* transport calls no data handler and a capture callback hands no frame   *)
(* to the transport and reports no volume: the step changes neither the    *)
(* client nor the orchestrator, its audio sources or its timers.  The      *)
(* capture callback is attached only while the client is Connected.  What  *)
(* was dropped is not delivered when the client becomes Connected.         *)
(***************************************************************************)
Delivered == <<orch, clients, calls, timers, sources, turnCalls>>

C21_DroppedOutsideConnected ==
  /\ [][\A k \in Attempts :
          clients[k].state # "CONNECTED" =>
            /\ (\E m \in ServerMessages : WsMessage(k, m)) => UNCHANGED Delivered
            /\ (\E vol \in {"loud", "quiet"}, send \in {"ok", "fail"} :
                  Capture(k, vol, send)) => UNCHANGED Delivered]_vars
  /\ [][\A k \in Attempts :
          (clients[k].state # "CONNECTED" /\ clients'[k].state = "CONNECTED") =>
            /\ ~clients'[k].traffic
            /\ clients'[k].currentInputTranscript = <<>>
            /\ clients'[k].currentOutputTranscript = <<>>
            /\ orch'.activeMessageIds = orch.activeMessageIds
            /\ orch'.activeAudioSources = orch.activeAudioSources
            /\ UNCHANGED <<sources, turnCalls>>]_vars
  /\ [](\A k \in Attempts : clients[k].state = "CONNECTING" => ~clients[k].traffic)
  /\ [](\A k \in Attempts : clients[k].processor => clients[k].state = "CONNECTED")

\* two messages arrived while the first client was Connecting; it is now
\* Connected and no data handler has been called
C21_Witness ==
  /\ attempts = 1 /\ now = 0 /\ spent = 2
  /\ clients[1].state = "CONNECTED" /\ ~clients[1].traffic
  /\ orch.connectionState = "CONNECTED"
  /\ orch.activeMessageIds = NoIds /\ sources = {} /\ turnCalls = 0

(***************************************************************************)
(* C22.  Whenever the live-set of scheduled audio sources is not empty the *)
(* orchestrator's connection state is Connected; in particular no          *)
(* scheduled audio is still active once the state has become Disconnected  *)
(* through a close by the server.                                          *)
(***************************************************************************)
C22_PlaybackOnlyConnected ==
  orch.activeAudioSources # {} => orch.connectionState = "CONNECTED"

(***************************************************************************)
(* C23.  When a message of the active attempt that ends a turn (it carries *)
(* turn-complete, or an interruption and no transcript) has been handled,  *)
(* both open message ids are empty; the first transcript fragment handled  *)
(* after the ids were emptied appends a new entry and leaves every earlier *)
(* entry as it was; and no step rewrites an entry that is not open.        *)
(***************************************************************************)
Handled(k, m) ==
  /\ WsMessage(k, m)
  /\ ~Drops(clients[k])
  /\ orch.activeSessionId = k

Kept(i) == Len(messages') >= i /\ messages'[i] = messages[i]

Current(k) == clients[k].made /\ ~Stale(World, k)

C24_StaleTimer ==
  /\ [](\A t \in timers :
          t.attempt = orch.activeSessionId /\ t.id = orch.reconnectTimeoutRef)
  /\ [][(StopSession \/ StartSession) => timers' = {}]_vars
  /\ [][\A t \in timers :
          (TimerFire(t) /\ t.attempt # orch.activeSessionId) =>
            /\ attempts' = attempts
            /\ UNCHANGED <<orch, calls, clients, sources, turnCalls>>]_vars
  /\ [](Cardinality({k \in Attempts : Current(k)}) <= 1)

\* the connection was lost, a reconnect was announced, the operator stopped
\* the session, and the time the timer was due has passed: no second attempt
C24_Witness ==
  /\ \E i \in 1..Len(messages) : messages[i].text = "Reconnecting"
  /\ attempts = 1 /\ orch.activeSessionId = 0
  /\ now = 2 * TickMs
  /\ timers = {}
  /\ orch.connectionState = "DISCONNECTED"

(***************************************************************************)
(* C25.  A job the analysis returns for a reason other than user_request   *)
(* becomes the pending proposal and is not put in the queue; the queue     *)
(* grows only by a user_request job or by approveProposedAsset() appending *)
(* the pending proposal, once, at the tail, which clears the proposal;     *)
(* dismissProposedAsset() clears the proposal and leaves the queue as it   *)
(* is; with no proposal pending both change nothing; and only jobs that    *)
(* were put in the queue are dispatched.                                   *)
(***************************************************************************)
Newest(q) == q[Len(q)]

C25_ProposalsNeedApproval ==
  /\ [][Len(assetQueue') > Len(assetQueue) =>
          /\ assetQueue' = Append(assetQueue, Newest(assetQueue'))
          /\ \/ Newest(assetQueue').reason = "user_request"
             \/ /\ approveProposedAsset
                /\ proposedAsset # NoJob
                /\ Newest(assetQueue') = proposedAsset]_vars
  /\ [][(proposedAsset' # NoJob /\ proposedAsset' # proposedAsset) =>
          /\ proposedAsset'.reason # "user_request"
          /\ UNCHANGED <<assetQueue, enqLog, dispLog>>]_vars
  /\ [][(approveProposedAsset /\ proposedAsset # NoJob) =>
          /\ assetQueue' = Append(assetQueue, proposedAsset)
          /\ proposedAsset' = NoJob]_vars
  /\ [][dismissProposedAsset =>
          proposedAsset' = NoJob /\ assetQueue' = assetQueue]_vars
  /\ [][((approveProposedAsset \/ dismissProposedAsset) /\ proposedAsset = NoJob)
          => UNCHANGED vars]_vars
  /\ [](\A i \in 1..Len(dispLog) : \E j \in 1..Len(enqLog) : dispLog[i] = enqLog[j])
  /\ [](\A i \in 1..Len(assetQueue) : assetQueue[i] # proposedAsset)

\* one proposal was dismissed or replaced and never reached the queue, and a
\* later one was approved and waits in the queue behind the running job
C25_Witness ==
  /\ proposedAsset = NoJob
  /\ jobCount = 3
  /\ \E i \in 1..Len(assetQueue) : assetQueue[i].reason # "user_request"
  /\ Len(enqLog) = 2
  /\ ~Idle

(***************************************************************************)
(* C26.  For a block of n samples captured at a rate other than 16000,     *)
(* downsampleTo16k returns L samples where L is the least integer with     *)
(* L * inputRate >= n * 16000, that is ceil(n * 16000 / inputRate), in     *)
(* both variants, and every output sample is computed from input indices   *)
(* in 0..n-1 only; at 16000 the block is returned as it is.                *)
(***************************************************************************)
C26_ResampleLength ==
  dsp.pc = "resampled" =>
    LET n == Len(dsp.buffer)
        L == Len(dsp.result)
    IN  IF dsp.inputRate = 16000
          THEN /\ L = n
               /\ \A i \in 1..n : /\ dsp.result[i].num = dsp.buffer[i]
                                  /\ dsp.result[i].den = 1
          ELSE /\ L * dsp.inputRate >= n * 16000
               /\ (L - 1) * dsp.inputRate < n * 16000
               /\ \A i \in 1..L : /\ dsp.result[i].reads # {}
                                  /\ dsp.result[i].reads \subseteq 0..(n - 1)

\* four samples captured at 44100 Hz have become two by interpolation, the
\* last of them computed from the last two input samples
C26_Witness ==
  /\ dsp.pc = "resampled"
  /\ dsp.variant = "linear" /\ dsp.inputRate = 44100
  /\ Len(dsp.buffer) = 4 /\ Len(dsp.result) = 2
  /\ dsp.result[2].reads = {2, 3}

(***************************************************************************)
(* C27.  For a block of samples k/32768 with -32768 <= k <= 32768, the     *)
(* payload createPcmBlob produces holds 2 bytes per sample, and decoding   *)
(* it with base64ToPCM and convertPCMToAudioBuffer gives as many samples,  *)
(* each within 1/32768 of the sample that was encoded.                     *)
(***************************************************************************)
InRange(data) == \A i \in 1..Len(data) : data[i] \in (-32768)..32768

Abs(x) == IF x < 0 THEN -x ELSE x

C27_CodecRoundTrip ==
  InRange(dsp.data) =>
    /\ dsp.pc \in {"encoded", "decoded"} =>
         Len(base64ToPCM(dsp.payload)) = 2 * Len(dsp.data)
    /\ dsp.pc = "decoded" =>
         /\ Len(dsp.channelData) = Len(dsp.data)
         /\ \A i \in 1..Len(dsp.data) :
              LET y == dsp.channelData[i]
              IN  Abs(dsp.data[i] * y.den - y.num * 32768) <= y.den

\* the block <<1.0, -1/32768>> has come back as <<32767/32768, 0>>
C27_Witness ==
  /\ dsp.pc = "decoded"
  /\ dsp.data = <<32768, -1>>
  /\ dsp.channelData = <<[num |-> 32767, den |-> 32768], [num |-> 0, den |-> 32768]>>

(***************************************************************************)
(* C28.  As stated: every input sample is encoded as a 16-bit integer of   *)
(* the same sign as the input, inputs above 1 as the largest 16-bit value  *)
(* and inputs below -1 as the smallest 16-bit value.                       *)
(***************************************************************************)
Sign(x) == IF x > 0 THEN 1 ELSE IF x < 0 THEN -1 ELSE 0

Encoded == Int16Array(base64ToPCM(dsp.payload))

C28_Original ==
  dsp.pc = "encoded" =>
    /\ Len(Encoded) = Len(dsp.data)
    /\ \A i \in 1..Len(dsp.data) :
         /\ Encoded[i] \in (-32768)..32767
         /\ Sign(Encoded[i]) = Sign(dsp.data[i])
         /\ dsp.data[i] > 32768 => Encoded[i] = 32767
         /\ dsp.data[i] < -32768 => Encoded[i] = -32768

(***************************************************************************)
(* C28, amended.  Every input sample is encoded as a 16-bit integer that   *)
(* never has the opposite sign of the input and is within one step of the  *)
(* input scaled by 32767 when the input is in [-1, 1]; inputs of 1 and     *)
(* above are encoded as 32767, the largest 16-bit value, and inputs of -1  *)
(* and below as -32767.                                                    *)
(***************************************************************************)
C28_Clamping ==
  dsp.pc = "encoded" =>
    /\ Len(Encoded) = Len(dsp.data)
    /\ \A i \in 1..Len(dsp.data) :
         /\ Encoded[i] \in (-32767)..32767
         /\ Sign(Encoded[i]) \in {0, Sign(dsp.data[i])}
         /\ dsp.data[i] \in (-32768)..32768 =>
              Abs(Encoded[i] * 32768 - dsp.data[i] * 32767) < 32768
         /\ dsp.data[i] >= 32768 => Encoded[i] = 32767
         /\ dsp.data[i] <= -32768 => Encoded[i] = -32767

\* the block <<1.5, -2.0>> has been encoded as <<32767, -32767>>
C28_Witness ==
  /\ dsp.pc = "encoded"
  /\ dsp.data = <<49152, -65536>>
  /\ Encoded = <<32767, -32767>>

(***************************************************************************)
(* C29.  The state of a client changes only along the edges                *)
(* Disconnected -> Connecting, Connecting -> Connected,                    *)
(* Connecting -> Disconnecting, Connected -> Disconnecting,                *)
(* Disconnecting -> Disconnected and Connecting -> Disconnected; so it     *)
(* never leaves Connected but to Disconnecting and never goes from         *)
(* Disconnecting to Connecting.                                            *)
(***************************************************************************)
Edges ==
  { <<"DISCONNECTED", "CONNECTING">>, <<"CONNECTING", "CONNECTED">>,
    <<"CONNECTING", "DISCONNECTING">>, <<"CONNECTED", "DISCONNECTING">>,
    <<"DISCONNECTING", "DISCONNECTED">>, <<"CONNECTING", "DISCONNECTED">> }

C29_StateMachine ==
  [][\A k \in Attempts :
       clients'[k].state # clients[k].state =>
         <<clients[k].state, clients'[k].state>> \in Edges]_vars

(***************************************************************************)
(* C30.  When the transport of a client has opened and getUserMedia then   *)
(* fails while the client is Connecting, onError is called with the        *)
(* initialization error exactly once (and never without such a failure),   *)
(* the client never becomes Connected and holds no stream or processor,    *)
(* and once connect() has settled and no disconnect() is suspended, in     *)
(* whichever order, close() has been called on the transport, the client   *)
(* is Disconnected, has no session and its input context is released.      *)
(***************************************************************************)
MicFailed(k) == clients[k].opened /\ clients[k].mic = "denied"

C30_MicrophoneFailure ==
  \A k \in Attempts :
    /\ MicFailed(k) =>
         /\ clients[k].micErrors = 1
         /\ clients[k].state \in {"DISCONNECTING", "DISCONNECTED"}
         /\ clients[k].stream = "null" /\ ~clients[k].processor
         /\ ~clients[k].traffic
    /\ clients[k].mic \in {"none", "pending", "done"} => clients[k].micErrors = 0
    /\ (MicFailed(k) /\ clients[k].conn = "done" /\ clients[k].pending = {}) =>
         /\ clients[k].ws \in {"closing", "closed"}
         /\ ~clients[k].session
         /\ clients[k].state = "DISCONNECTED"
         /\ clients[k].inputContext = "null"

\* the microphone was denied to the first client while connect() was still
\* pending; connect() has resolved since, the transport has been closed and
\* the error is in the log
C30_Witness ==
  /\ MicFailed(1) /\ clients[1].conn = "done" /\ clients[1].pending = {}
  /\ clients[1].ws = "closing"
  /\ clients[1].state = "DISCONNECTED"
  /\ orch.activeSessionId = 1 /\ ErrorLogged

(***************************************************************************)
(* C31.  connect() called on a client that is Connecting or Connected      *)
(* returns at once: the client's state, transport, connect() promise,      *)
(* microphone resources and in-flight transcripts stay as they are, no     *)
(* handler is called, and the orchestrator, its timers and its audio       *)
(* sources are untouched.                                                  *)
(***************************************************************************)
C31_ConnectIsNoOp ==
  [][\A k \in Attempts :
       ConnectAgain(k) =>
         /\ clients' = [clients EXCEPT ![k].again = TRUE]
         /\ UNCHANGED <<orch, calls, timers, sources, turnCalls>>]_vars

\* connect() was called again on a Connected client that had a transcript
\* in flight; the client is as it was
C31_Witness ==
  \E k \in Attempts :
    /\ clients[k].again
    /\ clients[k].state = "CONNECTED" /\ clients[k].ws = "open"
    /\ clients[k].stream = "live" /\ clients[k].processor
    /\ clients[k].currentOutputTranscript = <<"o">>
    /\ orch.connectionState = "CONNECTED"

(***************************************************************************)
(* C32.  For the client of the active attempt and each side: when          *)
(* fragments have arrived for the side since the last turn-complete or     *)
(* interruption, the log holds exactly one transcript entry of that side   *)
(* made since then, and its content is the fragments in arrival order;     *)
(* when none has arrived it holds no such entry; and the entries the log   *)
(* had when the turn began are not changed.                                *)
(***************************************************************************)
TurnEntries(k, side) ==
  {i \in (clients[k].turnBase + 1)..Len(messages) :
     messages[i].role = side /\ messages[i].text = "Transcript"}

Resumes(a) ==
  \/ AudioReady(a)
  \/ AudioFailed(a)
  \/ \E k \in Attempts : \E d \in clients[k].pending :
       d.caller = "start" /\ d.tag = a /\ DisconnectResume(k, d)

C33_SupersededStart ==
  [][\A a \in Attempts :
       (Resumes(a) /\ orch.activeSessionId # a) =>
         orch' = orch /\ sources' = sources]_vars


(***************************************************************************)
(* C34  Odd-length inbound defence.  convertPCMToAudioBuffer applied to a  *)
(* payload of n bytes does not fail, and the buffer it returns holds       *)
(* floor(n/2) samples, sample i being the signed 16-bit integer whose low  *)
(* byte is byte 2i-1 and whose high byte is byte 2i of the payload,        *)
(* divided by 32768; a trailing odd byte is not read.                      *)
(***************************************************************************)
LittleEndian(low, high) ==
  IF high >= 128 THEN high * 256 + low - 65536 ELSE high * 256 + low

C34_OddLengthDefence ==
  dsp.pc \in {"converted", "failed"} =>
    /\ dsp.pc = "converted"
    /\ Len(dsp.channelData) = Len(dsp.pcmData) \div 2
    /\ \A i \in 1..Len(dsp.channelData) :
         /\ dsp.channelData[i].den = 32768
         /\ dsp.channelData[i].num =
              LittleEndian(dsp.pcmData[2 * i - 1], dsp.pcmData[2 * i])

\* the same for payloads of at least 2 bytes
C34_FromTwoBytes ==
  Len(dsp.pcmData) >= 2 => C34_OddLengthDefence


(***************************************************************************)
(* C35  Knowledge-context cap.  In knowledge mode, with documents          *)
(* provided, the text standing in the instruction between the template's   *)
(* text before and after the placeholder is the concatenation of the       *)
(* documents when that has at most 25000 characters, and otherwise the     *)
(* first 25000 characters of it followed by the truncation notice; it is   *)
(* never longer than 25000 characters plus the notice.                     *)
(***************************************************************************)
Embedded == SubSeq(dsp.instruction, 2, Len(dsp.instruction) - 1)

\* text a is the first Length(a) characters of text b
RECURSIVE PrefixOf(_, _)
PrefixOf(a, b) ==
  IF a = <<>> THEN TRUE
  ELSE IF b = <<>> THEN FALSE
  ELSE IF a[1] = b[1] THEN PrefixOf(Tail(a), Tail(b))
  ELSE /\ Len(a) = 1
       /\ a[1].n < b[1].n
       /\ \/ a[1].t = "run" /\ b[1].t = "run" /\ a[1].of = b[1].of
          \/ a[1].t = "$" /\ b[1].t \in Patterns

C35_KnowledgeCap ==
  (dsp.pc = "assembled" /\ dsp.ragMode /\ dsp.documents # <<>>) =>
    LET concatenation == join(dsp.contextDocs)
    IN  /\ Length(concatenation) <= 25000 => Embedded = concatenation
        /\ Length(concatenation) > 25000 =>
             /\ Embedded # <<>>
             /\ Embedded[Len(Embedded)] = Run("notice", NoticeLen)
             /\ Length(SubSeq(Embedded, 1, Len(Embedded) - 1)) = 25000
             /\ PrefixOf(SubSeq(Embedded, 1, Len(Embedded) - 1), concatenation)
        /\ Length(Embedded) <= 25000 + NoticeLen

\* the same for documents that hold none of the replacement patterns
C35_WithoutPatterns ==
  (\A i \in 1..Len(dsp.documents) :
     \A j \in 1..Len(dsp.documents[i].content) :
       dsp.documents[i].content[j].t = "run")
    => C35_KnowledgeCap


(***************************************************************************)
(* C36  Whenever the auto-reconnect preference is off, no reconnect timer  *)
(* is pending; and a step that turns the preference off leaves no timer.   *)
(***************************************************************************)
C36_NoTimerWhenOff == ~orch.autoconnect => timers = {}


(***************************************************************************)
(* C37  No resurrection.  Once disconnect() has been called on a client,   *)
(* or its transport has closed, this stays so, the client is never         *)
(* Connected again and never holds a live microphone stream or a           *)
(* processor: a step in which the microphone is granted after that point   *)
(* leaves the client where it was, with no stream.                         *)
(***************************************************************************)
Ended(k) ==
  /\ clients[k].made
  /\ \/ clients[k].returned
     \/ ~clients[k].handlers
     \/ clients[k].pending # {}
     \/ clients[k].ws = "closed"

C37_NoResurrection ==
  /\ [](\A k \in Attempts :
          Ended(k) => /\ clients[k].state # "CONNECTED"
                      /\ clients[k].stream # "live"
                      /\ ~clients[k].processor)
  /\ [][\A k \in Attempts :
          Ended(k) =>
            /\ Ended(k)'
            /\ (WsOpen(k) \/ MicGranted(k)) =>
                 /\ clients'[k].state = clients[k].state
                 /\ clients'[k].stream = "null"
                 /\ orch' = orch]_vars

\* the transport of the first client opened and was closed by the server
\* while the microphone was being asked for; the microphone was granted
\* afterwards, and the client is Disconnected and holds no stream
C37_Witness ==
  /\ clients[1].made /\ clients[1].opened
  /\ clients[1].ws = "closed" /\ clients[1].handlers
  /\ clients[1].mic = "done"
  /\ clients[1].lost = "no"
  /\ clients[1].state = "DISCONNECTED"
  /\ clients[1].stream = "null" /\ ~clients[1].processor


(***************************************************************************)
(* C38  The 'user is speaking' signal is false whenever the connection     *)
(* state of the orchestrator is not Connected.                             *)
(***************************************************************************)
C38_SpeakingOnlyConnected ==
  orch.connectionState # "CONNECTED" => ~orch.userIsSpeaking


(***************************************************************************)
(* C39  Split/relay orchestrator progress.  A turn-complete event that     *)
(* moves the processing stage from 'listening' to 'thinking' issues a      *)
(* reasoning request for that turn, and the stage is never 'thinking'      *)
(* with no reasoning request scheduled or in flight.                       *)
(***************************************************************************)
C39_RelayProgress ==
  /\ [][(RelayTurnComplete /\ relay.stage = "listening" /\ relay'.stage = "thinking")
          => \E t \in relay'.timeouts :
               t.id = relay'.turns /\ t.attempt = relay.active]_vars
  /\ [](relay.stage = "thinking" => relay.timeouts \cup relay.requests # {})

\* a request that was issued is answered, and the stage is then 'replying',
\* unless the attempt is replaced or stopped meanwhile
C39_AnsweredWhenAsked ==
  \A id \in 1..MaxTurns, a \in 1..MaxRelayAttempts :
    (\E t \in relay.timeouts : t.id = id /\ t.attempt = a)
      ~> (id \in relay.answered \/ relay.active # a)

\* the stage goes from 'replying' back to 'listening' at a turn-complete
C39_ReplyingToListening ==
  [][(RelayTurnComplete /\ relay.stage = "replying") => relay'.stage = "listening"]_vars

=============================================================================
